---- MODULE Spec2Model ----
(***************************************************************************)
(* Foodgram backend: the recipe create/update pipeline, the favorite/cart  *)
(* relation toggle and their storage, as a state machine over the          *)
(* database tables.  Every storage call of a handler is one step: the      *)
(* handlers run in autocommit mode (no transaction.atomic in the source),  *)
(* so between two storage calls of one request any other request may run.  *)
(***************************************************************************)
EXTENDS Integers, Sequences, FiniteSets, TLC

\* ------------------------------------------------------------------ bounds
NumProcs == 2
NumUsers == 2
MaxRecipes == 2
MaxCreates == 1
NumTags == 2
NumIngredients == 2
MaxLen == 2

\* backend/const.py is absent from the source tree; api/recipes/serializers.py
\* imports the two amount bounds from it.  The model keeps the lower bound the
\* model field's message states (1) and scales the upper bound down.
MIN_AMOUNT == 1
MAX_INGR_AMOUNT == 2

\* The upper bound the IngredientAmount.amount column declares.  The
\* specification of the system knows one upper bound for the amount, used by
\* the validator and by the column alike.
MAX_INGREDIENT_AMOUNT == MAX_INGR_AMOUNT

\* The cooking-time bounds, also of backend/const.py: the lower bound is the
\* one the messages of the model field and of validate() state (1), the upper
\* bound is scaled down.
MIN_COOKING_TIME == 1
MAX_COOKING_TIME == 2

Procs == 1..NumProcs
Users == 1..NumUsers
\* Primary keys of the Recipe table; the create calls of a run insert at most
\* MaxCreates rows, the keys above that stay unused (requests on them get 404).
RecipeIds == 1..MaxRecipes
Tags == 1..NumTags
Ingredients == 1..NumIngredients

\* Ingredient.name values, in ascending order of the database's ORDER BY, and
\* Ingredient.measurement_unit values.
IngredientNames == 1..NumIngredients
Units == {"g", "kg"}

\* User.is_superuser
Superusers == {1}
\* request.user of a request without credentials (AnonymousUser), and everyone
\* who can send a request.
Anonymous == 0
Callers == {Anonymous} \cup Users

\* Values of the name column of a Recipe row.  Of the other scalar columns the
\* row keeps cooking_time; text and image are written by the same INSERT /
\* UPDATE as name and only their presence in the request body is modelled.
Names == {"a", "b"}

\* The two UserRecipeLinkBase tables: Bookmark (favorite) and CartItem (cart).
Kinds == {"favorite", "cart"}

\* The two view modules of the repository: api/recipes/views.py goes through
\* _toggle_relation and a create-serializer, recipes/views.py uses get_or_create.
Impls == {"api", "legacy"}

VARIABLES
    impl,       \* which view module serves the requests
    rel,        \* rel[kind][u][r]: number of rows (user=u, recipe=r) in that table
    treq,       \* treq[p]: the favorite/cart request worker p is handling
    last,       \* the last favorite/cart call that returned (sequential runs)
    recipes,    \* recipes[r]: the Recipe row r and its tag associations
    amounts,    \* amounts[r][i]: the amounts of the IngredientAmount rows (r, i)
    nextId,     \* the next primary key of the Recipe table
    mreq,       \* mreq[p]: the recipe request worker p is handling
    before,     \* before[p]: recipe aggregate when p's update was called (history)
    catalog,    \* catalog[i]: name and measurement_unit of Ingredient row i
    listing,    \* listing[p]: the shopping-list download worker p is handling
    accounts,   \* the ids of the User rows
    follows,    \* follows[s][a]: number of Follow rows (subscriber=s, author=a)
    sreq,       \* sreq[p]: the subscribe / unsubscribe request worker p is handling
    load        \* the load_list_ingredients command: its Ingredient rows, its run

toggleVars == <<impl, rel, treq, last>>
storeVars == <<recipes, amounts, nextId>>
mutVars == <<recipes, amounts, nextId, mreq, before>>
listVars == <<catalog, listing>>
userVars == <<accounts, follows, sreq>>
loadVars == <<load>>
vars == <<impl, rel, treq, last, recipes, amounts, nextId, mreq, before, catalog, listing,
          accounts, follows, sreq, load>>

\* ------------------------------------------------------------------ relation tables

NoRelations == [k \in Kinds |-> [u \in Users |-> [r \in RecipeIds |-> 0]]]

\* UniqueConstraint(fields=['user', 'recipe']) of Bookmark / CartItem: an INSERT
\* of a pair that already has a row raises IntegrityError.
UniqueViolationUnchecked(table, u, r) == FALSE
UniqueViolation(table, u, r) == table[u][r] >= 1

\* ForeignKey(user) / ForeignKey(recipe) of Bookmark / CartItem: an INSERT of a
\* row whose user or recipe row is gone raises IntegrityError.
ForeignKeyViolation(u, r) == u \notin accounts \/ ~recipes[r].exists

\* on_delete=CASCADE of the recipe key: deleting recipe r deletes the Bookmark
\* and CartItem rows that reference it.
CascadeRecipeKeepsRows(tables, r) == tables
CascadeRecipe(tables, r) ==
    [k \in Kinds |-> [v \in Users |-> [tables[k][v] EXCEPT ![r] = 0]]]

\* on_delete=CASCADE of the user key: deleting user u deletes u's rows.
CascadeUser(tables, u) ==
    [k \in Kinds |-> [tables[k] EXCEPT ![u] = [r \in RecipeIds |-> 0]]]

InsertRow(table, u, r) == [table EXCEPT ![u][r] = @ + 1]

\* QuerySet.filter(user=u, recipe=r).delete(): removes every matching row and
\* returns how many there were.
DeletedCountAlwaysOne(table, u, r) == 1
DeletedCount(table, u, r) == table[u][r]
DeleteRowsKeepsRows(table, u, r) == table
DeleteRows(table, u, r) == [table EXCEPT ![u][r] = 0]

\* ------------------------------------------------------------------ subscriptions

NoFollows == [s \in Users |-> [a \in Users |-> 0]]

\* pre: how many Follow rows the pair had when the call came in.
IdleSub == [pc |-> "idle", add |-> FALSE, user |-> 0, author |-> 0, pre |-> 0,
            status |-> 0, detail |-> ""]

SubResponded(q, st, msg) == [q EXCEPT !.pc = "done", !.status = st, !.detail = msg]

\* UniqueConstraint(fields=['subscriber', 'author'], name='unique_follow')
FollowUniqueViolation(s, a) == follows[s][a] >= 1

\* subscribe / unsubscribe: author = get_object_or_404(User, pk=pk); subscribe
\* then refuses author == request.user.
SubscribeBegin(p, add, u, a) ==
    /\ sreq[p].pc = "idle"
    /\ u \in accounts
    /\ LET q == [IdleSub EXCEPT !.add = add, !.user = u, !.author = a,
                                !.pre = follows[u][a]]
       IN sreq' = [sreq EXCEPT ![p] =
            IF a \notin accounts THEN SubResponded(q, 404, "not_found")
            ELSE IF add /\ a = u THEN SubResponded(q, 400, "self")
            ELSE [q EXCEPT !.pc = "called"]]
    /\ UNCHANGED <<accounts, follows, loadVars, listVars, toggleVars, mutVars>>

\* subscribe: `if Follow.objects.filter(subscriber=..., author=...).exists()`
SubscribeExists(p) ==
    /\ sreq[p].pc = "called"
    /\ sreq[p].add
    /\ sreq' = [sreq EXCEPT ![p] =
                  IF follows[@.user][@.author] >= 1
                  THEN SubResponded(@, 400, "already")
                  ELSE [@ EXCEPT !.pc = "checked"]]
    /\ UNCHANGED <<accounts, follows, loadVars, listVars, toggleVars, mutVars>>

\* subscribe: Follow.objects.create(subscriber=request.user, author=author),
\* with nothing around it that catches the IntegrityError of unique_follow:
\* the request ends in a server error.
SubscribeCreate(p) ==
    /\ sreq[p].pc = "checked"
    /\ LET q == sreq[p] IN
       IF FollowUniqueViolation(q.user, q.author)
       THEN /\ sreq' = [sreq EXCEPT ![p] = SubResponded(q, 500, "error")]
            /\ follows' = follows
       ELSE /\ sreq' = [sreq EXCEPT ![p] = SubResponded(q, 201, "")]
            /\ follows' = [follows EXCEPT ![q.user][q.author] = @ + 1]
    /\ UNCHANGED <<accounts, loadVars, listVars, toggleVars, mutVars>>

\* unsubscribe: `if not qs.exists()`
UnsubscribeExists(p) ==
    /\ sreq[p].pc = "called"
    /\ ~sreq[p].add
    /\ sreq' = [sreq EXCEPT ![p] =
                  IF follows[@.user][@.author] = 0
                  THEN SubResponded(@, 400, "absent")
                  ELSE [@ EXCEPT !.pc = "checked_present"]]
    /\ UNCHANGED <<accounts, follows, loadVars, listVars, toggleVars, mutVars>>

\* unsubscribe: qs.delete(), then 204 whatever the number of deleted rows.
UnsubscribeDelete(p) ==
    /\ sreq[p].pc = "checked_present"
    /\ follows' = [follows EXCEPT ![sreq[p].user][sreq[p].author] = 0]
    /\ sreq' = [sreq EXCEPT ![p] = SubResponded(@, 204, "")]
    /\ UNCHANGED <<accounts, loadVars, listVars, toggleVars, mutVars>>

SubReturn(p) ==
    /\ sreq[p].pc = "done"
    /\ sreq' = [sreq EXCEPT ![p] = IdleSub]
    /\ UNCHANGED <<accounts, follows, loadVars, listVars, toggleVars, mutVars>>

\* ------------------------------------------------------------------ ingredient loader

\* The command works on the Ingredient table by name, as text: here the table
\* is a set of (name, measurement_unit) rows with names as the file spells
\* them (catalog numbers the names and serves the recipe requests).

\* What a file can hold under "name": nothing, or a spelling of one name in
\* lower case, capitalised, or followed by a blank.
RawNames == {"", "salt", "Salt", "salt "}
RawUnits == {"", "g", "kg"}
FileItems == [name : RawNames, measurement_unit : RawUnits]

\* str.strip() and str.casefold() on these spellings.
Strip(x) == IF x = "salt " THEN "salt" ELSE x
Casefold(x) == IF x = "Salt" THEN "salt" ELSE x

\* Runs of the command that are followed.
MaxRuns == 2

\* file, update: the arguments; i: the loop index; seen, created, updated,
\* skipped: the locals of handle(); table: the Ingredient rows; run: how many
\* times the command was started; start: the table when this run started;
\* processed: the keys that reached get_or_create in this run (history).
IdleLoad == [pc |-> "idle", file |-> <<>>, update |-> FALSE, i |-> 0, seen |-> {},
             created |-> 0, updated |-> 0, skipped |-> 0, table |-> {},
             run |-> 0, start |-> {}, processed |-> <<>>]

\* `if key in seen`
AlreadySeenNever(key, seen) == FALSE
AlreadySeen(key, seen) == key \in seen

\* handle() up to the loop: the counters and the seen set start empty.
LoadBegin(update) ==
    /\ load.pc \in {"idle", "done"}
    /\ load.run < MaxRuns
    /\ load' = [load EXCEPT !.pc = "loop", !.update = update, !.i = 1, !.seen = {},
                            !.created = 0, !.updated = 0, !.skipped = 0,
                            !.run = @ + 1, !.start = load.table, !.processed = <<>>]
    /\ UNCHANGED <<userVars, listVars, toggleVars, mutVars>>

\* One pass of the loop body.  Ingredient.objects.get_or_create(name=name,
\* defaults=...) compares the name as stored (case-sensitive) and raises
\* MultipleObjectsReturned when several rows have it.
LoadItem ==
    /\ load.pc = "loop"
    /\ load.i <= Len(load.file)
    /\ LET item == load.file[load.i]
           name == Strip(item.name)
           mu == Strip(item.measurement_unit)
           key == Casefold(name)
           found == {row \in load.table : row.name = name}
           next == [load EXCEPT !.i = @ + 1]
       IN load' =
            IF name = "" \/ mu = "" THEN [next EXCEPT !.skipped = @ + 1]
            ELSE IF AlreadySeen(key, load.seen) THEN [next EXCEPT !.skipped = @ + 1]
            ELSE LET got == [next EXCEPT !.seen = @ \cup {key},
                                         !.processed = Append(@, key)]
                 IN IF found = {}
                    THEN [got EXCEPT !.created = @ + 1,
                                     !.table = @ \cup {[name |-> name, unit |-> mu]}]
                    ELSE IF Cardinality(found) > 1
                    THEN [load EXCEPT !.pc = "crashed", !.seen = @ \cup {key},
                                      !.processed = Append(@, key)]
                    ELSE LET obj == CHOOSE row \in found : TRUE
                         IN IF load.update /\ obj.unit # mu
                            THEN [got EXCEPT !.updated = @ + 1,
                                             !.table = (@ \ {obj})
                                                       \cup {[name |-> name, unit |-> mu]}]
                            ELSE [got EXCEPT !.skipped = @ + 1]
    /\ UNCHANGED <<userVars, listVars, toggleVars, mutVars>>

\* After the loop: the summary line is written.
LoadFinish ==
    /\ load.pc = "loop"
    /\ load.i > Len(load.file)
    /\ load' = [load EXCEPT !.pc = "done"]
    /\ UNCHANGED <<userVars, listVars, toggleVars, mutVars>>

\* ------------------------------------------------------------------ recipe tables

NoRow == [exists |-> FALSE, author |-> 0, name |-> "", cooking_time |-> 0, tags |-> {}]
NoAmounts == [i \in Ingredients |-> <<>>]

\* What a request sees of recipe r: its row with the tag set, and its
\* IngredientAmount rows.
Snapshot(r) == [row |-> recipes[r], amounts |-> amounts[r]]
NoSnapshot == [row |-> NoRow, amounts |-> NoAmounts]

\* ------------------------------------------------------------------ shopping list

\* The Ingredient table as load_list_ingredients / the admin leave it: nothing
\* keeps two rows from having the same name, or the same name and unit.
Catalogs == [Ingredients -> [name : IngredientNames, unit : Units]]
DefaultCatalog == [i \in Ingredients |-> [name |-> i, unit |-> "g"]]
\* Up to the naming of the units: the first ingredient is measured in "g".
InitialCatalogs == {c \in Catalogs : c[1].unit = "g"}

\* own: the user's cart rows and the ingredient rows of their recipes as they
\* were when the list was built, tables: all Bookmark and CartItem rows at that
\* time (kept to compare lists built at different times).
IdleListing == [pc |-> "idle", user |-> 0, lines |-> <<>>, placeholder |-> FALSE,
                own |-> {}, tables |-> <<>>]

\* (recipe, ingredient, name, unit, amount) of the IngredientAmount rows of the
\* recipes that have a CartItem row of user u.
OwnRows(u) ==
    {<<x[1], x[2], catalog[x[2]].name, catalog[x[2]].unit, amounts[x[1]][x[2]][x[3]]>> :
        x \in {y \in RecipeIds \X Ingredients \X (1..(MaxLen + NumProcs)) :
                  /\ rel["cart"][u][y[1]] >= 1
                  /\ y[3] \in DOMAIN amounts[y[1]][y[2]]}}

\* IngredientAmount.objects.filter(recipe__cart_items__user=user): the join of
\* the IngredientAmount rows with the CartItem rows of the user; one joined
\* row per (amount row, cart row) pair.
JoinedRowsOfAnyUser(u) ==
    {jr \in [recipe : RecipeIds, ingredient : Ingredients,
             k : 1..(MaxLen + NumProcs), c : 1..(NumProcs + 1)] :
        /\ jr.k \in DOMAIN amounts[jr.recipe][jr.ingredient]
        /\ jr.c = 1
        /\ \E v \in Users : rel["cart"][v][jr.recipe] >= 1}
JoinedRows(u) ==
    {jr \in [recipe : RecipeIds, ingredient : Ingredients,
             k : 1..(MaxLen + NumProcs), c : 1..(NumProcs + 1)] :
        /\ jr.k \in DOMAIN amounts[jr.recipe][jr.ingredient]
        /\ jr.c <= rel["cart"][u][jr.recipe]}

\* The orders in which the database may meet the joined rows.
ScanOrders(S) ==
    {f \in [1..Cardinality(S) -> S] : \A j, k \in DOMAIN f : j # k => f[j] # f[k]}

\* .values(name=F('ingredient__name'), unit=F('ingredient__measurement_unit'))
\* .annotate(total=Sum('amount')): GROUP BY name, unit.  A joined row adds its
\* amount to the group of its (name, unit), or opens that group.
AccumulateKeepsFirst(groups, jr) ==
    LET n == catalog[jr.ingredient].name
        un == catalog[jr.ingredient].unit
        a == amounts[jr.recipe][jr.ingredient][jr.k]
    IN IF \E g \in DOMAIN groups : groups[g].name = n /\ groups[g].unit = un
       THEN groups
       ELSE Append(groups, [name |-> n, unit |-> un, total |-> a])
AccumulateByNameOnly(groups, jr) ==
    LET n == catalog[jr.ingredient].name
        un == catalog[jr.ingredient].unit
        a == amounts[jr.recipe][jr.ingredient][jr.k]
    IN IF \E g \in DOMAIN groups : groups[g].name = n
       THEN [g \in DOMAIN groups |->
               IF groups[g].name = n
               THEN [groups[g] EXCEPT !.total = @ + a] ELSE groups[g]]
       ELSE Append(groups, [name |-> n, unit |-> un, total |-> a])
Accumulate(groups, jr) ==
    LET n == catalog[jr.ingredient].name
        un == catalog[jr.ingredient].unit
        a == amounts[jr.recipe][jr.ingredient][jr.k]
    IN IF \E g \in DOMAIN groups : groups[g].name = n /\ groups[g].unit = un
       THEN [g \in DOMAIN groups |->
               IF groups[g].name = n /\ groups[g].unit = un
               THEN [groups[g] EXCEPT !.total = @ + a] ELSE groups[g]]
       ELSE Append(groups, [name |-> n, unit |-> un, total |-> a])

RECURSIVE GroupRows(_, _)
GroupRows(scan, groups) ==
    IF scan = <<>> THEN groups
    ELSE GroupRows(Tail(scan), Accumulate(groups, Head(scan)))

\* .order_by('name'): ascending by name; ORDER BY says nothing about groups of
\* the same name, which stay in the order the scan produced them.
RECURSIVE InsertByName(_, _)
InsertByName(sorted, g) ==
    IF sorted = <<>> THEN <<g>>
    ELSE IF Head(sorted).name <= g.name
         THEN <<Head(sorted)>> \o InsertByName(Tail(sorted), g)
    ELSE <<g>> \o sorted

RECURSIVE OrderByName(_)
OrderByName(groups) ==
    IF groups = <<>> THEN <<>>
    ELSE InsertByName(OrderByName(SubSeq(groups, 1, Len(groups) - 1)),
                      groups[Len(groups)])

\* content = '\n'.join(lines) or 'Список покупок пуст.': the joined text is
\* empty only when there is no line (a line always holds " — "), and then the
\* placeholder text is the body.
UsesPlaceholderNever(lines) == FALSE
UsesPlaceholder(lines) == lines = <<>>

\* _build_shopping_list: one line "{name} — {total} {unit}" per group, joined
\* by newlines, or the placeholder text when there is no line.
Build(p, u, scan) ==
    /\ listing[p].pc = "idle"
    /\ LET lines == OrderByName(GroupRows(scan, <<>>))
       IN listing' = [listing EXCEPT ![p] =
            [pc |-> "done", user |-> u, lines |-> lines,
             placeholder |-> UsesPlaceholder(lines), own |-> OwnRows(u),
             tables |-> rel]]
    /\ UNCHANGED <<userVars, loadVars, catalog, toggleVars, mutVars>>

\* download_shopping_cart for an authenticated user.
DownloadShoppingCart(p, u) ==
    \E scan \in ScanOrders(JoinedRows(u)) : Build(p, u, scan)

ListReturn(p) ==
    /\ listing[p].pc = "done"
    /\ listing' = [listing EXCEPT ![p] = IdleListing]
    /\ UNCHANGED <<userVars, loadVars, catalog, toggleVars, mutVars>>

\* ------------------------------------------------------------------ toggle requests

\* pre: how many rows the pair had when the call started (what "initially
\* absent / present" refers to); status, detail: the Response.
IdleToggle == [pc |-> "idle", add |-> FALSE, kind |-> "favorite", user |-> 1,
               recipe |-> 1, pre |-> 0, status |-> 0, detail |-> ""]

NoCall == [add |-> FALSE, kind |-> "none", user |-> 0, recipe |-> 0,
           pre |-> 0, status |-> 0, detail |-> ""]

CallOf(q) == [add |-> q.add, kind |-> q.kind, user |-> q.user, recipe |-> q.recipe,
              pre |-> q.pre, status |-> q.status, detail |-> q.detail]

\* rest_framework.permissions.IsAuthenticated, the permission of the favorite
\* and shopping_cart actions; 0 stands for the user of a request without
\* credentials.
IsAuthenticated(u) == u # 0

SameKey(a, b) == a.kind = b.kind /\ a.user = b.user /\ a.recipe = b.recipe

Responded(q, st, msg) == [q EXCEPT !.pc = "done", !.status = st, !.detail = msg]

\* favorite / shopping_cart / delete_favorite / delete_shopping_cart: the action
\* is IsAuthenticated and get_object() found the recipe.
ToggleBegin(p, add, kind, u, r) ==
    /\ treq[p].pc = "idle"
    /\ IsAuthenticated(u)
    /\ LET q == [pc |-> "called", add |-> add, kind |-> kind, user |-> u,
                 recipe |-> r, pre |-> rel[kind][u][r], status |-> 0,
                 detail |-> ""]
       IN treq' = [treq EXCEPT ![p] =
                     IF recipes[r].exists THEN q ELSE Responded(q, 404, "not_found")]
    /\ UNCHANGED <<userVars, loadVars, listVars, impl, rel, last, mutVars>>

\* The same actions called without credentials: check_permissions denies the
\* request (401 or 403, depending on the authentication classes) before
\* get_object().
ToggleNotAuthenticated(p, add, kind, u, r) ==
    /\ treq[p].pc = "idle"
    /\ ~IsAuthenticated(u)
    /\ \E st \in {401, 403} :
          treq' = [treq EXCEPT ![p] =
                     [pc |-> "done", add |-> add, kind |-> kind, user |-> u,
                      recipe |-> r, pre |-> 0, status |-> st,
                      detail |-> "not_authenticated"]]
    /\ UNCHANGED <<userVars, loadVars, listVars, impl, rel, last, mutVars>>

\* Sequential use: a call starts only after every other call has returned.
ToggleBeginSeq(p, add, kind, u, r) ==
    /\ \A q \in Procs : treq[q].pc = "idle"
    /\ ToggleBegin(p, add, kind, u, r)

\* serializer.is_valid(raise_exception=False): the create-serializer rejects a
\* (user, recipe) pair that already has a row.
SerializerErrors(q) ==
    \/ rel[q.kind][q.user][q.recipe] >= 1
    \/ ~recipes[q.recipe].exists

\* _toggle_relation, add branch, up to `if serializer.errors`.
ToggleIsValid(p) ==
    /\ impl = "api"
    /\ treq[p].pc = "called"
    /\ treq[p].add
    /\ treq' = [treq EXCEPT ![p] =
                  IF SerializerErrors(@) THEN Responded(@, 400, "already")
                  ELSE [@ EXCEPT !.pc = "validated"]]
    /\ UNCHANGED <<userVars, loadVars, listVars, impl, rel, last, mutVars>>

\* `except Exception: return Response({'detail': already_message}, 400)`
SaveFailedUnhandled(q) == Responded(q, 500, "error")
SaveFailed(q) == Responded(q, 400, "already")

\* _toggle_relation, add branch: serializer.save() inside try/except, then 201.
ToggleSave(p) ==
    /\ impl = "api"
    /\ treq[p].pc = "validated"
    /\ LET q == treq[p]
           table == rel[q.kind]
       IN IF UniqueViolation(table, q.user, q.recipe) \/ ForeignKeyViolation(q.user, q.recipe)
          THEN /\ treq' = [treq EXCEPT ![p] = SaveFailed(q)]
               /\ rel' = rel
          ELSE /\ treq' = [treq EXCEPT ![p] = Responded(q, 201, "")]
               /\ rel' = [rel EXCEPT ![q.kind] = InsertRow(table, q.user, q.recipe)]
    /\ UNCHANGED <<userVars, loadVars, listVars, impl, last, mutVars>>

\* get_or_create, first half: the SELECT.  A row found means created = False.
GetOrCreateGet(p) ==
    /\ impl = "legacy"
    /\ treq[p].pc = "called"
    /\ treq[p].add
    /\ treq' = [treq EXCEPT ![p] =
                  IF rel[@.kind][@.user][@.recipe] >= 1
                  THEN Responded(@, 400, "already")
                  ELSE [@ EXCEPT !.pc = "creating"]]
    /\ UNCHANGED <<userVars, loadVars, listVars, impl, rel, last, mutVars>>

\* get_or_create, second half: the INSERT; on IntegrityError it selects the
\* row the other caller inserted and returns created = False; when there is
\* no such row (the INSERT failed on a foreign key) the IntegrityError is
\* raised again and leaves the handler.
GetOrCreateCreate(p) ==
    /\ impl = "legacy"
    /\ treq[p].pc = "creating"
    /\ LET q == treq[p]
           table == rel[q.kind]
       IN IF UniqueViolation(table, q.user, q.recipe)
          THEN /\ treq' = [treq EXCEPT ![p] = Responded(q, 400, "already")]
               /\ rel' = rel
          ELSE IF ForeignKeyViolation(q.user, q.recipe)
          THEN /\ treq' = [treq EXCEPT ![p] = Responded(q, 500, "error")]
               /\ rel' = rel
          ELSE /\ treq' = [treq EXCEPT ![p] = Responded(q, 201, "")]
               /\ rel' = [rel EXCEPT ![q.kind] = InsertRow(table, q.user, q.recipe)]
    /\ UNCHANGED <<userVars, loadVars, listVars, impl, last, mutVars>>

\* `if not deleted: 400 absent_message` else 204.
DeleteResponseAlwaysOk(q, deleted) == Responded(q, 204, "")
DeleteResponseCartAlwaysOk(q, deleted) ==
    IF deleted = 0 /\ q.kind = "favorite"
    THEN Responded(q, 400, "absent") ELSE Responded(q, 204, "")
DeleteResponse(q, deleted) ==
    IF deleted = 0 THEN Responded(q, 400, "absent") ELSE Responded(q, 204, "")

\* The remove branch (the same code in both view modules).
ToggleDelete(p) ==
    /\ treq[p].pc = "called"
    /\ ~treq[p].add
    /\ LET q == treq[p]
           table == rel[q.kind]
       IN /\ treq' = [treq EXCEPT ![p] =
                        DeleteResponse(q, DeletedCount(table, q.user, q.recipe))]
          /\ rel' = [rel EXCEPT ![q.kind] = DeleteRows(table, q.user, q.recipe)]
    /\ UNCHANGED <<userVars, loadVars, listVars, impl, last, mutVars>>

\* The response is returned to the caller; the worker is free again.
ToggleReturn(p) ==
    /\ treq[p].pc = "done"
    /\ treq' = [treq EXCEPT ![p] = IdleToggle]
    /\ UNCHANGED <<userVars, loadVars, listVars, impl, rel, last, mutVars>>

\* The same, remembering the call for the caller's next one.
ToggleReturnSeq(p) ==
    /\ treq[p].pc = "done"
    /\ treq' = [treq EXCEPT ![p] = IdleToggle]
    /\ last' = CallOf(treq[p])
    /\ UNCHANGED <<userVars, loadVars, listVars, impl, rel, mutVars>>

\* ------------------------------------------------------------------ recipe payloads

\* A key of the request body: present with a value, or not in the body.
Given(v) == [given |-> TRUE, val |-> v]
NotGiven(v) == [given |-> FALSE, val |-> v]

SeqsUpTo(S, n) == UNION {[1..k -> S] : k \in 0..n}

\* Submitted amounts: the values within [MIN_AMOUNT, MAX_INGR_AMOUNT] and one
\* below; BoundaryItems adds the one above.
TagInputs == Tags
ItemInputs == [id : Ingredients, amount : (MIN_AMOUNT - 1)..MAX_INGR_AMOUNT]
BoundaryItems == [id : Ingredients, amount : (MIN_AMOUNT - 1)..(MAX_INGR_AMOUNT + 1)]

Payloads ==
    [name : {NotGiven("")} \cup {Given(n) : n \in Names},
     text : {Given("text")},
     image : {Given("image")},
     cooking_time : {Given(MIN_COOKING_TIME)},
     tags : {NotGiven(<<>>)} \cup {Given(t) : t \in SeqsUpTo(TagInputs, MaxLen)},
     ingredients : {NotGiven(<<>>)} \cup {Given(x) : x \in SeqsUpTo(ItemInputs, MaxLen)}]

\* Valid bodies with one tag and one ingredient: what racing requests send.
RacePayloads ==
    [name : {Given(n) : n \in Names},
     text : {Given("text")},
     image : {Given("image")},
     cooking_time : {Given(MIN_COOKING_TIME)},
     tags : {Given(<<t>>) : t \in Tags},
     ingredients : {Given(<<[id |-> i, amount |-> MIN_AMOUNT]>>) : i \in Ingredients}]

\* Bodies that vary the scalar keys: each key present or not, cooking_time and
\* amount also one below and one above their bounds, image also empty.
ScalarPayloads ==
    [name : {NotGiven(""), Given("a")},
     text : {NotGiven(""), Given("text")},
     image : {NotGiven(""), Given("image"), Given("")},
     cooking_time : {NotGiven(0)} \cup
                    {Given(t) : t \in (MIN_COOKING_TIME - 1)..(MAX_COOKING_TIME + 1)},
     tags : {NotGiven(<<>>), Given(<<1>>)},
     ingredients : {NotGiven(<<>>)} \cup
                   {Given(<<[id |-> 1, amount |-> a]>>) :
                      a \in (MIN_AMOUNT - 1)..(MAX_INGR_AMOUNT + 1)}]

FieldNames == {"name", "text", "image", "cooking_time", "tags", "ingredients"}

\* The declared fields whose key is not in the request body.
MissingKeys(pl) == {f \in FieldNames : ~pl[f].given}

Range(f) == {f[k] : k \in DOMAIN f}

\* len(ids) != len(set(ids))
HasDuplicates(ids) == Len(ids) # Cardinality(Range(ids))

IdsOf(items) == [k \in DOMAIN items |-> items[k].id]

\* IngredientAmountInputSerializer: id is a PrimaryKeyRelatedField over
\* Ingredient.objects.all(), amount an IntegerField with min_value / max_value.
ItemFieldErrors(items) ==
    {<<"ingredients", "does_not_exist">> : k \in {k \in DOMAIN items : items[k].id \notin Ingredients}}
    \cup
    {<<"ingredients", "amount_range">> : k \in {k \in DOMAIN items :
        ~(MIN_AMOUNT <= items[k].amount /\ items[k].amount <= MAX_INGR_AMOUNT)}}

\* RecipeCreateSerializer.validate_ingredients
validate_ingredients_allow_repeats(items) ==
    IF items = <<>> THEN {<<"ingredients", "need_one">>}
    ELSE IF \E k \in DOMAIN items :
               ~(MIN_AMOUNT <= items[k].amount /\ items[k].amount <= MAX_INGR_AMOUNT)
         THEN {<<"ingredients", "amount_range">>}
    ELSE {}
validate_ingredients_allow_empty(items) ==
    IF HasDuplicates(IdsOf(items)) THEN {<<"ingredients", "unique">>}
    ELSE IF \E k \in DOMAIN items :
               ~(MIN_AMOUNT <= items[k].amount /\ items[k].amount <= MAX_INGR_AMOUNT)
         THEN {<<"ingredients", "amount_range">>}
    ELSE {}
validate_ingredients_strict_upper(items) ==
    IF items = <<>> THEN {<<"ingredients", "need_one">>}
    ELSE IF HasDuplicates(IdsOf(items)) THEN {<<"ingredients", "unique">>}
    ELSE IF \E k \in DOMAIN items :
               ~(MIN_AMOUNT <= items[k].amount /\ items[k].amount < MAX_INGR_AMOUNT)
         THEN {<<"ingredients", "amount_range">>}
    ELSE {}
validate_ingredients(items) ==
    IF items = <<>> THEN {<<"ingredients", "need_one">>}
    ELSE IF HasDuplicates(IdsOf(items)) THEN {<<"ingredients", "unique">>}
    ELSE IF \E k \in DOMAIN items :
               ~(MIN_AMOUNT <= items[k].amount /\ items[k].amount <= MAX_INGR_AMOUNT)
         THEN {<<"ingredients", "amount_range">>}
    ELSE {}

\* tags = PrimaryKeyRelatedField(queryset=Tag.objects.all(), many=True)
TagFieldErrors(ids) ==
    {<<"tags", "does_not_exist">> : k \in {k \in DOMAIN ids : ids[k] \notin Tags}}

\* RecipeCreateSerializer.validate_tags
validate_tags_allow_empty(ids) ==
    IF HasDuplicates(ids) THEN {<<"tags", "unique">>} ELSE {}
validate_tags(ids) ==
    IF ids = <<>> THEN {<<"tags", "need_one">>}
    ELSE IF HasDuplicates(ids) THEN {<<"tags", "unique">>}
    ELSE {}

\* A declared field missing from the body: an error unless the update is partial.
RequiredNever(field, partial) == {}
Required(field, partial) == IF partial THEN {} ELSE {<<field, "required">>}

\* Serializer.to_internal_value: each declared field is parsed, then handed to
\* its validate_<field> method; the errors of all fields are collected.
FieldErrors(partial, pl) ==
    (IF pl.name.given THEN {} ELSE Required("name", partial))
    \cup
    (IF pl.text.given THEN {} ELSE Required("text", partial))
    \cup
    (IF pl.image.given THEN {} ELSE Required("image", partial))
    \cup
    (IF ~pl.cooking_time.given THEN Required("cooking_time", partial)
     ELSE IF MIN_COOKING_TIME <= pl.cooking_time.val
              /\ pl.cooking_time.val <= MAX_COOKING_TIME THEN {}
     ELSE {<<"cooking_time", "range">>})
    \cup
    (IF ~pl.ingredients.given THEN Required("ingredients", partial)
     ELSE IF ItemFieldErrors(pl.ingredients.val) # {}
          THEN ItemFieldErrors(pl.ingredients.val)
     ELSE validate_ingredients(pl.ingredients.val))
    \cup
    (IF ~pl.tags.given THEN Required("tags", partial)
     ELSE IF TagFieldErrors(pl.tags.val) # {} THEN TagFieldErrors(pl.tags.val)
     ELSE validate_tags(pl.tags.val))

\* RecipeCreateSerializer.validate: with an instance (an update), a body
\* without the ingredients key, or else without the tags key, is rejected;
\* then a body whose image key holds an empty value (Base64ImageField parses
\* it to None without an error); then a cooking_time out of its bounds.
validateAcceptsOmitted(isUpdate, pl) == {}
validate(isUpdate, pl) ==
    IF isUpdate /\ ~pl.ingredients.given THEN {<<"ingredients", "need_one">>}
    ELSE IF isUpdate /\ ~pl.tags.given THEN {<<"tags", "need_one">>}
    ELSE IF pl.image.given /\ pl.image.val = "" THEN {<<"image", "required">>}
    ELSE IF pl.cooking_time.given
            /\ ~(MIN_COOKING_TIME <= pl.cooking_time.val
                 /\ pl.cooking_time.val <= MAX_COOKING_TIME)
         THEN {<<"cooking_time", "range">>}
    ELSE {}

\* Serializer.run_validation: validate() runs only when no field failed.
ValidationErrorsIgnored(isUpdate, partial, pl) == {}
ValidationErrors(isUpdate, partial, pl) ==
    IF FieldErrors(partial, pl) # {} THEN FieldErrors(partial, pl)
    ELSE validate(isUpdate, pl)

\* rest_framework.permissions.SAFE_METHODS
SAFE_METHODS == {"GET", "HEAD", "OPTIONS"}

\* IsAuthorOrAdminOrReadOnly.has_permission
has_permission_allow_all(method, u) == TRUE
has_permission(method, u) == method \in SAFE_METHODS \/ u # Anonymous

\* IsAuthorOrAdminOrReadOnly.has_object_permission
has_object_permission_any_user(method, u, row) ==
    method \in SAFE_METHODS \/ u # Anonymous
has_object_permission(method, u, row) ==
    \/ method \in SAFE_METHODS
    \/ u # Anonymous /\ row.author = u
    \/ u \in Superusers

\* ------------------------------------------------------------------ recipe requests

\* tagIds, ingredients, missing, gaveTags, gaveIngredients: the request body;
\* name, cooking_time, author, tags: the validated data; status, errors: the
\* Response; seen: the recipe a read returned.
IdleMut == [pc |-> "idle", op |-> "none", user |-> 0, recipe |-> 0, name |-> "",
            cooking_time |-> 0, author |-> 0, tags |-> {}, ingredients |-> <<>>,
            gaveTags |-> FALSE, gaveIngredients |-> FALSE, missing |-> {},
            tagIds |-> <<>>,
            status |-> 0, errors |-> {}, seen |-> NoSnapshot]

MutResponded(q, st, errs) == [q EXCEPT !.pc = "done", !.status = st, !.errors = errs]

AllIdle == \A q \in Procs : mreq[q].pc = "idle"

\* RecipeViewSet.create up to serializer.is_valid(raise_exception=True); the
\* author is the requesting user (perform_create).
CreateBegin(p, u, pl) ==
    /\ mreq[p].pc = "idle"
    /\ has_permission("POST", u)
    /\ LET errs == ValidationErrors(FALSE, FALSE, pl)
           q == [IdleMut EXCEPT !.op = "create", !.user = u,
                                !.gaveTags = pl.tags.given,
                                !.gaveIngredients = pl.ingredients.given,
                                !.missing = MissingKeys(pl),
                                !.tagIds = pl.tags.val,
                                !.ingredients = pl.ingredients.val]
       IN mreq' = [mreq EXCEPT ![p] =
            IF errs # {} THEN MutResponded(q, 400, errs)
            ELSE [q EXCEPT !.pc = "validated", !.name = pl.name.val, !.author = u,
                           !.cooking_time = pl.cooking_time.val,
                           !.tags = Range(pl.tags.val)]]
    /\ before' = [before EXCEPT ![p] = NoSnapshot]
    /\ UNCHANGED <<userVars, loadVars, listVars, toggleVars, storeVars>>

\* RecipeViewSet.update (PUT, or PATCH when partial): get_object() with the
\* object permission (the body is not looked at before), then is_valid.  A column the body does not name keeps the
\* value of the loaded instance; on PUT the hidden author field takes its
\* default, the requesting user.
UpdateBegin(p, u, r, partial, pl) ==
    /\ mreq[p].pc = "idle"
    /\ has_permission(IF partial THEN "PATCH" ELSE "PUT", u)
    /\ LET errs == ValidationErrors(TRUE, partial, pl)
           row == recipes[r]
           method == IF partial THEN "PATCH" ELSE "PUT"
           called == [IdleMut EXCEPT !.op = "update", !.user = u, !.recipe = r]
           q == [called EXCEPT !.gaveTags = pl.tags.given,
                               !.gaveIngredients = pl.ingredients.given,
                               !.missing = MissingKeys(pl),
                               !.tagIds = pl.tags.val,
                               !.ingredients = pl.ingredients.val]
       IN mreq' = [mreq EXCEPT ![p] =
            IF ~row.exists THEN MutResponded(called, 404, {})
            ELSE IF ~has_object_permission(method, u, row) THEN MutResponded(called, 403, {})
            ELSE IF errs # {} THEN MutResponded(q, 400, errs)
            ELSE [q EXCEPT !.pc = "validated",
                           !.name = IF pl.name.given THEN pl.name.val ELSE row.name,
                           !.cooking_time = IF pl.cooking_time.given
                                            THEN pl.cooking_time.val
                                            ELSE row.cooking_time,
                           !.author = IF partial THEN row.author ELSE u,
                           !.tags = Range(pl.tags.val)]]
    /\ UNCHANGED <<userVars, loadVars, listVars, toggleVars, storeVars>>

\* The call, remembering what the recipe was when it came in.
UpdateBeginTracked(p, u, r, partial, pl) ==
    /\ UpdateBegin(p, u, r, partial, pl)
    /\ before' = [before EXCEPT ![p] = Snapshot(r)]

UpdateBeginUntracked(p, u, r, partial, pl) ==
    /\ UpdateBegin(p, u, r, partial, pl)
    /\ UNCHANGED before

\* create: Recipe.objects.create(**validated_data), the INSERT of the row.
CreateRow(p) ==
    /\ mreq[p].pc = "validated"
    /\ mreq[p].op = "create"
    /\ nextId <= MaxCreates
    /\ recipes' = [recipes EXCEPT ![nextId] =
                     [exists |-> TRUE, author |-> mreq[p].author,
                      name |-> mreq[p].name,
                      cooking_time |-> mreq[p].cooking_time, tags |-> {}]]
    /\ nextId' = nextId + 1
    /\ mreq' = [mreq EXCEPT ![p].pc = "saved", ![p].recipe = nextId]
    /\ UNCHANGED <<userVars, loadVars, listVars, toggleVars, amounts, before>>

\* update: super().update(instance, validated_data) ends in instance.save():
\* the UPDATE of the row, and an INSERT of the row under its key when the
\* UPDATE matched no row (the recipe was deleted after get_object()); the
\* INSERT needs the author's row.
UpdateRow(p) ==
    /\ mreq[p].pc = "validated"
    /\ mreq[p].op = "update"
    /\ LET q == mreq[p] IN
       IF recipes[q.recipe].exists
       THEN /\ recipes' = [recipes EXCEPT ![q.recipe].name = q.name,
                                          ![q.recipe].cooking_time = q.cooking_time,
                                          ![q.recipe].author = q.author]
            /\ mreq' = [mreq EXCEPT ![p].pc = "saved"]
       ELSE IF q.author \in accounts
       THEN /\ recipes' = [recipes EXCEPT ![q.recipe] =
                             [exists |-> TRUE, author |-> q.author, name |-> q.name,
                              cooking_time |-> q.cooking_time, tags |-> {}]]
            /\ mreq' = [mreq EXCEPT ![p].pc = "saved"]
       ELSE /\ recipes' = recipes
            /\ mreq' = [mreq EXCEPT ![p] = MutResponded(q, 500, {})]
    /\ UNCHANGED <<userVars, loadVars, listVars, toggleVars, amounts, nextId, before>>

\* _set_tags_and_ingredients: `if tags_data is not None: recipe.tags.set(tags_data)`
SetTagsSkipped(p) ==
    /\ mreq[p].pc = "saved"
    /\ mreq' = [mreq EXCEPT ![p].pc = "tagged"]
    /\ UNCHANGED <<userVars, loadVars, listVars, toggleVars, storeVars, before>>
SetTags(p) ==
    /\ mreq[p].pc = "saved"
    /\ IF mreq[p].gaveTags /\ mreq[p].tags # {} /\ ~recipes[mreq[p].recipe].exists
       THEN /\ recipes' = recipes
            /\ mreq' = [mreq EXCEPT ![p] = MutResponded(@, 500, {})]
       ELSE /\ recipes' = [recipes EXCEPT ![mreq[p].recipe].tags =
                             IF mreq[p].gaveTags THEN mreq[p].tags ELSE @]
            /\ mreq' = [mreq EXCEPT ![p].pc = "tagged"]
    /\ UNCHANGED <<userVars, loadVars, listVars, toggleVars, amounts, nextId, before>>

\* _set_tags_and_ingredients: `if ingredients_data is not None:
\* recipe.ingredient_amounts.all().delete()`
DeleteAmountRows(rows) == NoAmounts

DeleteAmounts(p) ==
    /\ mreq[p].pc = "tagged"
    /\ amounts' = [amounts EXCEPT ![mreq[p].recipe] =
                     IF mreq[p].gaveIngredients THEN DeleteAmountRows(@) ELSE @]
    /\ mreq' = [mreq EXCEPT ![p].pc = "deleted"]
    /\ UNCHANGED <<userVars, loadVars, listVars, toggleVars, recipes, nextId, before>>

\* UniqueConstraint(fields=['recipe', 'ingredient']): the INSERT fails when one
\* of its rows meets an existing row of the recipe, or another row of the batch.
AmountUniqueViolationUnchecked(rows, items) == FALSE
AmountUniqueViolation(rows, items) ==
    \/ \E k \in DOMAIN items : Len(rows[items[k].id]) >= 1
    \/ HasDuplicates(IdsOf(items))

\* ForeignKey(recipe) of IngredientAmount: rows of a recipe that is gone are
\* refused.
AmountForeignKeyViolation(r, items) == items # <<>> /\ ~recipes[r].exists

AmountsOf(items, i) ==
    LET mine == SelectSeq(items, LAMBDA it : it.id = i)
    IN [k \in DOMAIN mine |-> mine[k].amount]

\* bulk_create: one row per submitted entry.
InsertAmountsFirstOnly(rows, items) ==
    [i \in Ingredients |-> rows[i] \o AmountsOf(SubSeq(items, 1, 1), i)]
InsertAmounts(rows, items) ==
    [i \in Ingredients |-> rows[i] \o AmountsOf(items, i)]

\* _set_tags_and_ingredients: IngredientAmount.objects.bulk_create([...]); an
\* IntegrityError leaves the handler as an unhandled exception (500).  After
\* the INSERT the response is built by to_representation, which reads the
\* recipe back through RecipeSerializer.
BulkCreate(p) ==
    /\ mreq[p].pc = "deleted"
    /\ LET q == mreq[p]
           rows == amounts[q.recipe]
           inserted == IF q.gaveIngredients THEN InsertAmounts(rows, q.ingredients)
                       ELSE rows
       IN IF q.gaveIngredients /\ (\/ AmountUniqueViolation(rows, q.ingredients)
                                   \/ AmountForeignKeyViolation(q.recipe, q.ingredients))
          THEN /\ mreq' = [mreq EXCEPT ![p] = MutResponded(q, 500, {})]
               /\ amounts' = amounts
          ELSE /\ mreq' = [mreq EXCEPT ![p] =
                     MutResponded([q EXCEPT !.seen = [row |-> recipes[q.recipe],
                                                      amounts |-> inserted]],
                                  IF q.op = "create" THEN 201 ELSE 200, {})]
               /\ amounts' = [amounts EXCEPT ![q.recipe] = inserted]
    /\ UNCHANGED <<userVars, loadVars, listVars, toggleVars, recipes, nextId, before>>

\* A storage call of create / update raises (connection lost, worker killed):
\* the exception leaves the handler; no enclosing transaction undoes the
\* storage calls already made.
StorageFailure(p) ==
    /\ mreq[p].pc \in {"validated", "saved", "tagged", "deleted"}
    /\ mreq' = [mreq EXCEPT ![p] = MutResponded(@, 500, {})]
    /\ UNCHANGED <<userVars, loadVars, listVars, toggleVars, storeVars, before>>

\* RecipeSerializer over what was read: tags lists the recipe's tags by id (with
\* name and slug), ingredients the IngredientAmount rows as (ingredient.id,
\* amount) with the ingredient's name and unit.
Representation(snap) ==
    [tags |-> {t \in Tags : t \in snap.row.tags},
     ingredients |-> UNION {{[id |-> i, amount |-> snap.amounts[i][k]] :
                               k \in DOMAIN snap.amounts[i]} : i \in Ingredients}]

\* RecipeViewSet.retrieve: get_object() (404 without the row) and
\* RecipeSerializer over the row, its tags and its ingredient amounts.  The
\* SELECTs of the queryset and of its prefetch_related are taken as one
\* snapshot: the most consistent view a reader can get.
RetrieveRecipe(p, u, r) ==
    /\ mreq[p].pc = "idle"
    /\ has_permission("GET", u)
    /\ LET q == [IdleMut EXCEPT !.op = "read", !.user = u, !.recipe = r] IN
       mreq' = [mreq EXCEPT ![p] =
            IF ~recipes[r].exists THEN MutResponded(q, 404, {})
            ELSE IF ~has_object_permission("GET", u, recipes[r])
                 THEN MutResponded(q, 403, {})
            ELSE MutResponded([q EXCEPT !.seen = Snapshot(r)], 200, {})]
    /\ UNCHANGED <<userVars, loadVars, listVars, toggleVars, storeVars, before>>

\* A read whose caller is of no interest.
ReadRecipe(p, r) == RetrieveRecipe(p, Anonymous, r)

\* APIView.initial -> check_permissions: has_permission is False, the request
\* is denied before the view looks for the object.  The status is 401 or 403
\* depending on the authentication classes of the settings.
NotAuthenticated(p, op, method, u, r) ==
    /\ mreq[p].pc = "idle"
    /\ ~has_permission(method, u)
    /\ \E st \in {401, 403} :
          mreq' = [mreq EXCEPT ![p] =
                     MutResponded([IdleMut EXCEPT !.op = op, !.user = u, !.recipe = r],
                                  st, {})]
    /\ before' = [before EXCEPT ![p] = Snapshot(r)]
    /\ UNCHANGED <<userVars, loadVars, listVars, toggleVars, storeVars>>

\* ModelViewSet.destroy: get_object() with the object permission, then
\* instance.delete(), which removes the row and, in the same transaction, the
\* rows that reference it with on_delete=CASCADE: its IngredientAmount rows, its
\* tag associations, its Bookmark and CartItem rows.
DestroyRecipe(p, u, r) ==
    /\ mreq[p].pc = "idle"
    /\ has_permission("DELETE", u)
    /\ before' = [before EXCEPT ![p] = Snapshot(r)]
    /\ LET q == [IdleMut EXCEPT !.op = "destroy", !.user = u, !.recipe = r] IN
       IF ~recipes[r].exists
       THEN /\ mreq' = [mreq EXCEPT ![p] = MutResponded(q, 404, {})]
            /\ UNCHANGED <<storeVars, rel>>
       ELSE IF ~has_object_permission("DELETE", u, recipes[r])
       THEN /\ mreq' = [mreq EXCEPT ![p] = MutResponded(q, 403, {})]
            /\ UNCHANGED <<storeVars, rel>>
       ELSE /\ mreq' = [mreq EXCEPT ![p] = MutResponded(q, 204, {})]
            /\ recipes' = [recipes EXCEPT ![r] = NoRow]
            /\ amounts' = [amounts EXCEPT ![r] = NoAmounts]
            /\ rel' = CascadeRecipe(rel, r)
            /\ UNCHANGED nextId
    /\ UNCHANGED <<userVars, loadVars, listVars, impl, treq, last>>

\* The recipes of user u.
RecipesOf(u) == {r \in RecipeIds : recipes[r].exists /\ recipes[r].author = u}

RECURSIVE CascadeRecipes(_, _)
CascadeRecipes(tables, rs) ==
    IF rs = {} THEN tables
    ELSE LET r == CHOOSE x \in rs : TRUE
         IN CascadeRecipes(CascadeRecipe(tables, r), rs \ {r})

\* user.delete() (the destroy action of UserViewSet, the admin): removes the
\* user's row and, in the same transaction, what references it with
\* on_delete=CASCADE: the user's Bookmark, CartItem and Follow rows, the user's
\* recipes and, through them, their IngredientAmount, Bookmark and CartItem
\* rows.
DeleteUser(u) ==
    /\ u \in accounts
    /\ accounts' = accounts \ {u}
    /\ follows' = [s \in Users |-> [a \in Users |->
                      IF s = u \/ a = u THEN 0 ELSE follows[s][a]]]
    /\ recipes' = [r \in RecipeIds |-> IF r \in RecipesOf(u) THEN NoRow ELSE recipes[r]]
    /\ amounts' = [r \in RecipeIds |-> IF r \in RecipesOf(u) THEN NoAmounts ELSE amounts[r]]
    /\ rel' = CascadeRecipes(CascadeUser(rel, u), RecipesOf(u))
    /\ UNCHANGED <<loadVars, listVars, sreq, impl, treq, last, nextId, mreq, before>>

\* serializer.validate_ingredients(items) called on its own, on entries that
\* name stored ingredients: raises ValidationError (errors) or returns the list.
ValidateIngredients(p, items) ==
    /\ mreq[p].pc = "idle"
    /\ LET errs == validate_ingredients(items)
           q == [IdleMut EXCEPT !.op = "validate_ingredients", !.ingredients = items]
       IN mreq' = [mreq EXCEPT ![p] =
                     MutResponded(q, IF errs = {} THEN 200 ELSE 400, errs)]
    /\ UNCHANGED <<userVars, loadVars, listVars, toggleVars, storeVars, before>>

\* IngredientAmountInputSerializer(data=item).is_valid() on one entry.
ValidateItem(p, item) ==
    /\ mreq[p].pc = "idle"
    /\ LET errs == ItemFieldErrors(<<item>>)
           q == [IdleMut EXCEPT !.op = "validate_item", !.ingredients = <<item>>]
       IN mreq' = [mreq EXCEPT ![p] =
                     MutResponded(q, IF errs = {} THEN 200 ELSE 400, errs)]
    /\ UNCHANGED <<userVars, loadVars, listVars, toggleVars, storeVars, before>>

\* The response is returned; the worker is free again.
MutReturn(p) ==
    /\ mreq[p].pc = "done"
    /\ mreq' = [mreq EXCEPT ![p] = IdleMut]
    /\ before' = [before EXCEPT ![p] = NoSnapshot]
    /\ UNCHANGED <<userVars, loadVars, listVars, toggleVars, storeVars>>

\* ------------------------------------------------------------------ specifications

\* A recipe as a create call leaves it: author, one tag, one ingredient row.
SeedRow(r) == [exists |-> TRUE, author |-> 1, name |-> "a",
               cooking_time |-> MIN_COOKING_TIME, tags |-> {1}]
SeedAmounts == [i \in Ingredients |-> IF i = 1 THEN <<MIN_AMOUNT>> ELSE <<>>]

\* The recipes the create calls have stored so far.
SeededRecipes == [r \in RecipeIds |-> IF r <= MaxCreates THEN SeedRow(r) ELSE NoRow]
SeededAmounts == [r \in RecipeIds |-> IF r <= MaxCreates THEN SeedAmounts ELSE NoAmounts]

\* The favorite/cart actions work on recipes that exist.
InitToggle ==
    /\ catalog = DefaultCatalog
    /\ listing = [p \in Procs |-> IdleListing]
    /\ accounts = Users
    /\ follows = NoFollows
    /\ sreq = [p \in Procs |-> IdleSub]
    /\ load = IdleLoad
    /\ impl \in Impls
    /\ rel = NoRelations
    /\ treq = [p \in Procs |-> IdleToggle]
    /\ last = NoCall
    /\ recipes = SeededRecipes
    /\ amounts = SeededAmounts
    /\ nextId = MaxCreates + 1
    /\ mreq = [p \in Procs |-> IdleMut]
    /\ before = [p \in Procs |-> NoSnapshot]

\* Every user has every stored recipe in the favorites and in the cart.
InitRemoveRace ==
    /\ catalog = DefaultCatalog
    /\ listing = [p \in Procs |-> IdleListing]
    /\ accounts = Users
    /\ follows = NoFollows
    /\ sreq = [p \in Procs |-> IdleSub]
    /\ load = IdleLoad
    /\ impl \in Impls
    /\ rel = [k \in Kinds |-> [u \in Users |-> [r \in RecipeIds |->
                IF r <= MaxCreates THEN 1 ELSE 0]]]
    /\ treq = [p \in Procs |-> IdleToggle]
    /\ last = NoCall
    /\ recipes = SeededRecipes
    /\ amounts = SeededAmounts
    /\ nextId = MaxCreates + 1
    /\ mreq = [p \in Procs |-> IdleMut]
    /\ before = [p \in Procs |-> NoSnapshot]

\* Stored recipes with up to two ingredient rows each (none: what a create left
\* when it failed after the INSERT of the row), any Ingredient table, any carts.
ListAmounts ==
    [Ingredients -> {<<>>} \cup {<<x>> : x \in MIN_AMOUNT..MAX_INGR_AMOUNT}]

InitShoppingList ==
    /\ catalog \in InitialCatalogs
    /\ listing = [p \in Procs |-> IdleListing]
    /\ accounts = Users
    /\ follows = NoFollows
    /\ sreq = [p \in Procs |-> IdleSub]
    /\ load = IdleLoad
    /\ impl = "api"
    /\ rel \in {t \in [Kinds -> [Users -> [RecipeIds -> {0, 1}]]] :
                  \A u \in Users, r \in RecipeIds : t["favorite"][u][r] = 0}
    /\ treq = [p \in Procs |-> IdleToggle]
    /\ last = NoCall
    /\ recipes = [r \in RecipeIds |-> SeedRow(r)]
    /\ amounts \in [RecipeIds -> ListAmounts]
    /\ nextId = MaxRecipes + 1
    /\ mreq = [p \in Procs |-> IdleMut]
    /\ before = [p \in Procs |-> NoSnapshot]

\* One stored recipe with a row for each ingredient, empty favorites and
\* carts; the ingredients have different names, or one name and two units.
InitCartIsolation ==
    /\ catalog \in {c \in InitialCatalogs : c[1].name = 1 /\ c[2].unit = "kg"}
    /\ listing = [p \in Procs |-> IdleListing]
    /\ accounts = Users
    /\ follows = NoFollows
    /\ sreq = [p \in Procs |-> IdleSub]
    /\ load = IdleLoad
    /\ impl = "api"
    /\ rel = NoRelations
    /\ treq = [p \in Procs |-> IdleToggle]
    /\ last = NoCall
    /\ recipes = SeededRecipes
    /\ amounts = [r \in RecipeIds |->
                    IF r <= MaxCreates THEN [i \in Ingredients |-> <<MIN_AMOUNT>>]
                    ELSE NoAmounts]
    /\ nextId = MaxCreates + 1
    /\ mreq = [p \in Procs |-> IdleMut]
    /\ before = [p \in Procs |-> NoSnapshot]

\* Ingredient tables the command can meet: rows of the one name in its
\* spellings, with at most two rows of the same spelling.
LoadTables ==
    SUBSET {[name |-> "salt", unit |-> "g"], [name |-> "salt", unit |-> "kg"],
            [name |-> "Salt", unit |-> "g"]}

\* A file of up to MaxLen objects and a table, before the command is run.
InitLoader ==
    /\ catalog = DefaultCatalog
    /\ listing = [p \in Procs |-> IdleListing]
    /\ accounts = Users
    /\ follows = NoFollows
    /\ sreq = [p \in Procs |-> IdleSub]
    /\ \E file \in SeqsUpTo(FileItems, MaxLen), table \in LoadTables :
          load = [IdleLoad EXCEPT !.file = file, !.table = table]
    /\ impl = "api"
    /\ rel = NoRelations
    /\ treq = [p \in Procs |-> IdleToggle]
    /\ last = NoCall
    /\ recipes = [r \in RecipeIds |-> NoRow]
    /\ amounts = [r \in RecipeIds |-> NoAmounts]
    /\ nextId = 1
    /\ mreq = [p \in Procs |-> IdleMut]
    /\ before = [p \in Procs |-> NoSnapshot]

\* The database after the migrations: no recipe, no relation.
InitMutator ==
    /\ catalog = DefaultCatalog
    /\ listing = [p \in Procs |-> IdleListing]
    /\ accounts = Users
    /\ follows = NoFollows
    /\ sreq = [p \in Procs |-> IdleSub]
    /\ load = IdleLoad
    /\ impl = "api"
    /\ rel = NoRelations
    /\ treq = [p \in Procs |-> IdleToggle]
    /\ last = NoCall
    /\ recipes = [r \in RecipeIds |-> NoRow]
    /\ amounts = [r \in RecipeIds |-> NoAmounts]
    /\ nextId = 1
    /\ mreq = [p \in Procs |-> IdleMut]
    /\ before = [p \in Procs |-> NoSnapshot]

Init == InitMutator

\* The storage calls of a create / update after validation, and the return.
WriteStep(p) ==
    \/ CreateRow(p)
    \/ UpdateRow(p)
    \/ SetTags(p)
    \/ DeleteAmounts(p)
    \/ BulkCreate(p)
    \/ MutReturn(p)

MutatorStep(p) ==
    \/ WriteStep(p)
    \/ StorageFailure(p)

NoWriteInFlight ==
    \A q \in Procs : mreq[q].op \in {"create", "update"} => mreq[q].pc = "done"

\* Requests that come one after the other are all served by the first worker.
SeqProcs == {1}

\* Recipe requests one after the other, any body.
NextMutatorSeq ==
    \E p \in SeqProcs :
        \/ AllIdle /\ \E u \in Users, pl \in Payloads : CreateBegin(p, u, pl)
        \/ AllIdle /\ \E u \in Users, r \in RecipeIds, partial \in BOOLEAN, pl \in Payloads :
              UpdateBeginTracked(p, u, r, partial, pl)
        \/ AllIdle /\ \E r \in RecipeIds : ReadRecipe(p, r)
        \/ MutatorStep(p)

\* Recipes of either author, some of them in the favorites and the cart of the
\* second user; no key is left for a create.
InitAuth ==
    /\ catalog = DefaultCatalog
    /\ listing = [p \in Procs |-> IdleListing]
    /\ accounts = Users
    /\ follows = NoFollows
    /\ sreq = [p \in Procs |-> IdleSub]
    /\ load = IdleLoad
    /\ impl = "api"
    /\ treq = [p \in Procs |-> IdleToggle]
    /\ last = NoCall
    /\ recipes \in [RecipeIds -> {NoRow} \cup {[SeedRow(1) EXCEPT !.author = a] : a \in Users}]
    /\ amounts = [r \in RecipeIds |-> IF recipes[r].exists THEN SeedAmounts ELSE NoAmounts]
    /\ rel = [k \in Kinds |-> [u \in Users |-> [r \in RecipeIds |->
                 IF recipes[r].exists /\ u = NumUsers THEN 1 ELSE 0]]]
    /\ nextId = MaxRecipes + 1
    /\ mreq = [p \in Procs |-> IdleMut]
    /\ before = [p \in Procs |-> NoSnapshot]

\* Reads, updates and deletes one after the other, by any caller.
NextAuth ==
    \E p \in SeqProcs :
        \/ \E u \in Callers, r \in RecipeIds : RetrieveRecipe(p, u, r)
        \/ \E u \in Callers, r \in RecipeIds, partial \in BOOLEAN, pl \in RacePayloads :
              UpdateBeginTracked(p, u, r, partial, pl)
        \/ \E u \in Callers, r \in RecipeIds : DestroyRecipe(p, u, r)
        \/ \E u \in Callers, r \in RecipeIds :
              \/ NotAuthenticated(p, "update", "PUT", u, r)
              \/ NotAuthenticated(p, "update", "PATCH", u, r)
              \/ NotAuthenticated(p, "destroy", "DELETE", u, r)
        \/ UpdateRow(p)
        \/ SetTags(p)
        \/ DeleteAmounts(p)
        \/ BulkCreate(p)
        \/ MutReturn(p)

\* The ingredient validators applied to lists of entries around the bounds.
NextValidators ==
    \E p \in Procs :
        \/ \E items \in SeqsUpTo(BoundaryItems, MaxLen) : ValidateIngredients(p, items)
        \/ \E item \in BoundaryItems : ValidateItem(p, item)
        \/ MutReturn(p)

\* Recipe requests one after the other, bodies that vary the scalar keys.
NextScalars ==
    \E p \in Procs :
        \/ AllIdle /\ \E u \in Users, pl \in ScalarPayloads : CreateBegin(p, u, pl)
        \/ AllIdle /\ \E u \in Users, r \in RecipeIds, partial \in BOOLEAN,
                         pl \in ScalarPayloads :
              UpdateBeginTracked(p, u, r, partial, pl)
        \/ WriteStep(p)

\* One create / update at a time, PATCH bodies, with reads at any moment.
NextReaders ==
    \E p \in Procs :
        \/ NoWriteInFlight /\ \E u \in Users, pl \in RacePayloads : CreateBegin(p, u, pl)
        \/ NoWriteInFlight /\ \E u \in Users, r \in RecipeIds, pl \in RacePayloads :
              UpdateBeginTracked(p, u, r, TRUE, pl)
        \/ \E r \in RecipeIds : ReadRecipe(p, r)
        \/ WriteStep(p)

\* Concurrent create / update calls, PATCH bodies.
NextMutator ==
    \E p \in Procs :
        \/ \E u \in Users, pl \in RacePayloads : CreateBegin(p, u, pl)
        \/ \E u \in Users, r \in RecipeIds, pl \in RacePayloads :
              UpdateBeginUntracked(p, u, r, TRUE, pl)
        \/ WriteStep(p)

ToggleStep(p) ==
    \/ ToggleIsValid(p)
    \/ ToggleSave(p)
    \/ GetOrCreateGet(p)
    \/ GetOrCreateCreate(p)

\* Concurrent favorite / cart calls.
NextToggle ==
    \E p \in Procs :
        \/ \E add \in BOOLEAN, kind \in Kinds, u \in Users, r \in RecipeIds :
              ToggleBegin(p, add, kind, u, r)
        \/ ToggleStep(p)
        \/ ToggleDelete(p)
        \/ ToggleReturn(p)

\* Favorite / cart calls one after the other.
NextToggleSeq ==
    \E p \in Procs :
        \/ \E add \in BOOLEAN, kind \in Kinds, u \in Users, r \in RecipeIds :
              ToggleBeginSeq(p, add, kind, u, r)
        \/ ToggleStep(p)
        \/ ToggleDelete(p)
        \/ ToggleReturnSeq(p)

\* Add calls only, one per worker, from empty tables.
NextAddRace ==
    \E p \in Procs :
        \/ \E kind \in Kinds, u \in Users, r \in RecipeIds :
              ToggleBegin(p, TRUE, kind, u, r)
        \/ ToggleStep(p)

\* Remove calls only, one per worker.
NextRemoveRace ==
    \E p \in Procs :
        \/ \E kind \in Kinds, u \in Users, r \in RecipeIds :
              ToggleBegin(p, FALSE, kind, u, r)
        \/ ToggleDelete(p)

\* The same sequence of calls run once on the favorites and once on the cart:
\* the first worker serves the favorite call, the second the same call (add or
\* remove, user, recipe) on the cart; the next call comes when both answered.
FavoriteRun == 1
CartRun == 2

NextTwin ==
    \/ /\ \A p \in Procs : treq[p].pc = "idle"
       /\ \E add \in BOOLEAN, u \in Users, r \in RecipeIds :
             ToggleBegin(FavoriteRun, add, "favorite", u, r)
    \/ /\ treq[FavoriteRun].pc # "idle"
       /\ ToggleBegin(CartRun, treq[FavoriteRun].add, "cart",
                      treq[FavoriteRun].user, treq[FavoriteRun].recipe)
    \/ \E p \in {FavoriteRun, CartRun} :
          \/ ToggleStep(p)
          \/ ToggleDelete(p)
    \/ /\ treq[CartRun].pc = "done"
       /\ ToggleReturn(FavoriteRun)
    \/ /\ treq[FavoriteRun].pc = "idle"
       /\ ToggleReturn(CartRun)

\* The body of the requests whose caller is what matters.
PlainPayloads == {pl \in RacePayloads : pl.name.val = "a" /\ pl.tags.val = <<1>>
                                         /\ pl.ingredients.val[1].id = 1}

NoRequestInFlight ==
    /\ \A q \in Procs : mreq[q].pc = "idle"
    /\ \A q \in Procs : treq[q].pc = "idle"

\* Recipe and favorite / cart requests one after the other, with and without
\* credentials.
NextAnonymous ==
    \E p \in SeqProcs :
        \/ /\ NoRequestInFlight
           /\ \E u \in Callers, r \in RecipeIds, pl \in PlainPayloads :
                 \/ CreateBegin(p, u, pl)
                 \/ NotAuthenticated(p, "create", "POST", u, r)
                 \/ UpdateBeginTracked(p, u, r, TRUE, pl)
                 \/ NotAuthenticated(p, "update", "PATCH", u, r)
                 \/ DestroyRecipe(p, u, r)
                 \/ NotAuthenticated(p, "destroy", "DELETE", u, r)
        \/ /\ NoRequestInFlight
           /\ \E add \in BOOLEAN, kind \in Kinds, u \in Callers, r \in RecipeIds :
                 \/ ToggleBegin(p, add, kind, u, r)
                 \/ ToggleNotAuthenticated(p, add, kind, u, r)
        \/ WriteStep(p)
        \/ ToggleIsValid(p)
        \/ ToggleSave(p)
        \/ ToggleDelete(p)
        \/ ToggleReturn(p)

\* One stored recipe of either author, in the favorites and the cart of every
\* user.
InitCascade ==
    /\ catalog = DefaultCatalog
    /\ listing = [p \in Procs |-> IdleListing]
    /\ accounts = Users
    /\ follows = NoFollows
    /\ sreq = [p \in Procs |-> IdleSub]
    /\ load = IdleLoad
    /\ impl \in Impls
    /\ treq = [p \in Procs |-> IdleToggle]
    /\ last = NoCall
    /\ \E a \in Users : recipes = [r \in RecipeIds |->
                            IF r <= MaxCreates THEN [SeedRow(r) EXCEPT !.author = a]
                            ELSE NoRow]
    /\ amounts = SeededAmounts
    /\ rel = [k \in Kinds |-> [u \in Users |-> [r \in RecipeIds |->
                 IF r <= MaxCreates THEN 1 ELSE 0]]]
    /\ nextId = MaxCreates + 1
    /\ mreq = [p \in Procs |-> IdleMut]
    /\ before = [p \in Procs |-> NoSnapshot]

\* The worker that deletes while the first worker serves a favorite / cart
\* call or an update.
Deleter == NumProcs

\* A favorite / cart call or a PATCH of a recipe in flight on the first
\* worker, while recipes and users are deleted.
NextCascade ==
    \/ \E p \in SeqProcs :
          \/ /\ mreq[p].pc = "idle"
             /\ \E add \in BOOLEAN, kind \in Kinds, u \in accounts, r \in RecipeIds :
                   ToggleBegin(p, add, kind, u, r)
          \/ ToggleStep(p)
          \/ ToggleDelete(p)
          \/ ToggleReturn(p)
          \/ /\ treq[p].pc = "idle"
             /\ \E u \in accounts, r \in RecipeIds, pl \in PlainPayloads :
                   UpdateBeginUntracked(p, u, r, TRUE, pl)
          \/ UpdateRow(p)
          \/ SetTags(p)
          \/ DeleteAmounts(p)
          \/ BulkCreate(p)
          \/ MutReturn(p)
    \/ \E u \in accounts, r \in RecipeIds : DestroyRecipe(Deleter, u, r)
    \/ MutReturn(Deleter)
    \/ \E u \in Users : DeleteUser(u)

\* The command run on the file, with or without --update, then run again.
NextLoader ==
    \/ \E update \in BOOLEAN : LoadBegin(update)
    \/ LoadItem
    \/ LoadFinish

\* Concurrent subscribe / unsubscribe calls.
NextSubscribe ==
    \E p \in Procs :
        \/ \E add \in BOOLEAN, u \in Users, a \in Users : SubscribeBegin(p, add, u, a)
        \/ SubscribeExists(p)
        \/ SubscribeCreate(p)
        \/ UnsubscribeExists(p)
        \/ UnsubscribeDelete(p)
        \/ SubReturn(p)

\* The user whose shopping list is watched; the last user is the other one.
Observed == 1

\* Favorite / cart calls of every user, one at a time, and shopping-list
\* downloads of the watched user.
NextCartIsolation ==
    \/ \E p \in SeqProcs :
          \/ \E add \in BOOLEAN, kind \in Kinds, u \in Users, r \in RecipeIds :
                ToggleBegin(p, add, kind, u, r)
          \/ ToggleIsValid(p)
          \/ ToggleSave(p)
          \/ ToggleDelete(p)
          \/ ToggleReturn(p)
    \/ \E p \in Procs :
          \/ DownloadShoppingCart(p, Observed)
          \/ ListReturn(p)

\* Shopping-list downloads over a fixed database.
NextShoppingList ==
    \E p \in Procs :
        \/ \E u \in Users : DownloadShoppingCart(p, u)
        \/ ListReturn(p)

Next == NextToggle \/ NextMutator

\* Concurrent favorite/cart requests.
SpecToggle == InitToggle /\ [][NextToggle]_vars

\* Favorite/cart requests one after the other.
SpecToggleSeq == InitToggle /\ [][NextToggleSeq]_vars

\* Racing add calls.
SpecAddRace == InitToggle /\ [][NextAddRace]_vars

\* Racing remove calls.
SpecRemoveRace == InitRemoveRace /\ [][NextRemoveRace]_vars

\* Shopping-list downloads.
SpecShoppingList == InitShoppingList /\ [][NextShoppingList]_vars

\* Recipe requests one at a time.
SpecMutatorSeq == InitMutator /\ [][NextMutatorSeq]_vars

\* Recipe requests one at a time, scalar keys varied.
SpecScalars == InitMutator /\ [][NextScalars]_vars

\* The ingredient validators on their own.
SpecValidators == InitMutator /\ [][NextValidators]_vars

\* Requests with and without credentials, one after the other.
SpecAnonymous == InitMutator /\ [][NextAnonymous]_vars

\* Deletes of recipes and users while a call is in flight.
SpecCascade == InitCascade /\ [][NextCascade]_vars

\* Runs of load_list_ingredients on one file.
SpecLoader == InitLoader /\ [][NextLoader]_vars

\* Concurrent subscribe / unsubscribe calls, from no subscription.
SpecSubscribe == InitMutator /\ [][NextSubscribe]_vars

\* One sequence of calls on the favorites and on the cart.
SpecTwin == InitToggle /\ [][NextTwin]_vars

\* Shopping-list downloads between favorite / cart calls.
SpecCartIsolation == InitCartIsolation /\ [][NextCartIsolation]_vars

\* Reads, updates and deletes by any caller, one after the other.
SpecAuth == InitAuth /\ [][NextAuth]_vars

\* One recipe writer at a time, concurrent readers.
SpecReaders == InitMutator /\ [][NextReaders]_vars

\* Concurrent recipe writers.
SpecMutator == InitMutator /\ [][NextMutator]_vars

Spec == Init /\ [][Next]_vars

\* ------------------------------------------------------------------ properties

Adders(kind, u, r) ==
    {p \in Procs : /\ treq[p].pc # "idle" /\ treq[p].add /\ treq[p].kind = kind
                   /\ treq[p].user = u /\ treq[p].recipe = r}

\* C4: when two (or more) add calls for the same (kind, user, recipe) of a
\* stored recipe race from the absent state, then once they have all answered exactly one row is
\* stored, exactly one caller got 201 and every other one the 400 "already"
\* response; no add call ever answers with an unhandled storage error.
C4_ConcurrentAddOneWinner ==
    /\ \A p \in Procs : treq[p].status # 500
    /\ \A kind \in Kinds, u \in Users, r \in RecipeIds :
         LET A == Adders(kind, u, r) IN
         (recipes[r].exists /\ Cardinality(A) >= 2 /\ \A p \in A : treq[p].pc = "done") =>
            /\ rel[kind][u][r] = 1
            /\ Cardinality({p \in A : treq[p].status = 201}) = 1
            /\ \A p \in A : treq[p].status # 201 =>
                  treq[p].status = 400 /\ treq[p].detail = "already"

\* Two add calls that both passed the existence check before either inserted
\* have both answered.
C4_Witness ==
    \E p, q \in Procs :
        /\ p # q /\ SameKey(treq[p], treq[q])
        /\ treq[p].pc = "done" /\ treq[q].pc = "done"
        /\ treq[p].add /\ treq[q].add
        /\ treq[p].pre = 0 /\ treq[q].pre = 0
        /\ treq[p].status = 201 /\ treq[q].status = 400

\* C7: at most one row of a kind per (user, recipe), in every reachable state
\* of concurrently running add and remove calls.
C7_RelationUnique ==
    \A kind \in Kinds, u \in Users, r \in RecipeIds : rel[kind][u][r] <= 1

\* An add that started while the pair was absent lost the race to another add.
C7_Witness ==
    \E p \in Procs :
        /\ treq[p].pc = "done" /\ treq[p].add /\ treq[p].pre = 0
        /\ treq[p].status = 400
        /\ rel[treq[p].kind][treq[p].user][treq[p].recipe] = 1

\* C9: in sequential use, on a stored recipe, the call after an add that
\* started on an absent pair:
\* that add answered 201 and a second add of the same pair answers 400
\* "already"; the call after a remove that started on a present pair: that
\* remove answered 204 and a second remove answers 400 "absent".  For both kinds.
C9_TwiceInSequence ==
    \A p \in Procs :
        ( /\ treq[p].pc = "done" /\ SameKey(treq[p], last) /\ treq[p].add = last.add
          /\ recipes[treq[p].recipe].exists ) =>
            /\ (last.add /\ last.pre = 0) =>
                  /\ last.status = 201
                  /\ treq[p].status = 400 /\ treq[p].detail = "already"
            /\ (~last.add /\ last.pre >= 1) =>
                  /\ last.status = 204
                  /\ treq[p].status = 400 /\ treq[p].detail = "absent"

\* A second remove of a cart row has answered.
C9_Witness ==
    \E p \in Procs :
        /\ treq[p].pc = "done" /\ SameKey(treq[p], last)
        /\ ~treq[p].add /\ ~last.add /\ last.pre >= 1
        /\ treq[p].kind = "cart"

C10_Step(p) ==
    LET q == treq[p]
        n == rel[q.kind][q.user][q.recipe]
    IN (q.pc \in {"called", "validated", "creating"} /\ treq'[p] # q) =>
          /\ (q.add /\ n >= 1) =>
                treq'[p] = Responded(q, 400, "already") /\ rel' = rel
          /\ (~q.add /\ n = 0) =>
                treq'[p] = Responded(q, 400, "absent") /\ rel' = rel
          /\ (treq'[p].pc = "done" /\ treq'[p].status = 400) => rel' = rel

\* C10: a step of an add that meets an existing row answers 400 "already" and
\* changes no row; a remove that matches no row answers 400 "absent" (not 204)
\* and changes no row; no step that answers 400 changes a row.
C10_FailedToggleNoChange == [][\A p \in Procs : C10_Step(p)]_vars

\* A remove of an absent pair and an add of a present pair have both answered.
C10_Witness ==
    \E p, q \in Procs :
        /\ treq[p].pc = "done" /\ treq[p].add /\ treq[p].status = 400
        /\ treq[q].pc = "done" /\ ~treq[q].add /\ treq[q].status = 400
        /\ treq[q].pre = 0

Removers(kind, u, r) ==
    {p \in Procs : /\ treq[p].pc # "idle" /\ ~treq[p].add /\ treq[p].kind = kind
                   /\ treq[p].user = u /\ treq[p].recipe = r}

\* C11: when two (or more) remove calls for the same (kind, user, recipe) were
\* all called while the row existed, then as soon as one of them has answered
\* 204 the row is absent, and once they have all answered exactly one got 204
\* and every other one the 400 "absent" response.
C11_ConcurrentRemoveOneWinner ==
    \A kind \in Kinds, u \in Users, r \in RecipeIds :
        LET R == Removers(kind, u, r) IN
        (Cardinality(R) >= 2 /\ \A p \in R : treq[p].pre >= 1) =>
            /\ (\E p \in R : treq[p].pc = "done") => rel[kind][u][r] = 0
            /\ (\A p \in R : treq[p].pc = "done") =>
                  /\ Cardinality({p \in R : treq[p].status = 204}) = 1
                  /\ \A p \in R : treq[p].status # 204 =>
                        treq[p].status = 400 /\ treq[p].detail = "absent"

\* Two remove calls of one existing favorite row have both answered.
C11_Witness ==
    \E p, q \in Procs :
        /\ p # q /\ SameKey(treq[p], treq[q])
        /\ ~treq[p].add /\ ~treq[q].add
        /\ treq[p].pre = 1 /\ treq[q].pre = 1
        /\ treq[p].pc = "done" /\ treq[q].pc = "done"
        /\ treq[p].status = 204 /\ treq[q].status = 400

\* ---- recipe create / update

InFlight == {"validated", "saved", "tagged", "deleted"}

\* The stored IngredientAmount rows of r as (id, amount) entries, and their number.
StoredEntries(r) ==
    UNION {{[id |-> i, amount |-> amounts[r][i][k]] : k \in DOMAIN amounts[r][i]} :
           i \in Ingredients}
RECURSIVE SumLen(_, _)
SumLen(rows, S) ==
    IF S = {} THEN 0
    ELSE LET i == CHOOSE x \in S : TRUE IN Len(rows[i]) + SumLen(rows, S \ {i})
RowCount(r) == SumLen(amounts[r], Ingredients)

\* A recipe row is stored without its tags or without its ingredient rows.
PartialVisible(r) ==
    recipes[r].exists /\ (recipes[r].tags = {} \/ RowCount(r) = 0)

\* C1 (as claimed): a create that fails leaves no row of the call in storage,
\* and while a create is running storage never holds its recipe row without
\* the tags or the ingredient rows.
C1_CreateAllOrNothing ==
    \A p \in Procs :
        (mreq[p].op = "create" /\ mreq[p].recipe \in RecipeIds) =>
            /\ (mreq[p].pc = "done" /\ mreq[p].status = 500) =>
                  (~recipes[mreq[p].recipe].exists /\ RowCount(mreq[p].recipe) = 0)
            /\ mreq[p].pc \in InFlight => ~PartialVisible(mreq[p].recipe)

\* C2 (as claimed): after an update that failed between its storage calls the
\* recipe's row, tag set and ingredient rows are what they were before the call.
C2_UpdateAllOrNothing ==
    \A p \in Procs :
        (mreq[p].op = "update" /\ mreq[p].pc = "done" /\ mreq[p].status = 500) =>
            Snapshot(mreq[p].recipe) = before[p]

\* What the recipe is once update w has made all its storage calls.
AfterUpdate(w) ==
    [row |-> [exists |-> TRUE, author |-> w.author, name |-> w.name,
              cooking_time |-> w.cooking_time, tags |-> w.tags],
     amounts |-> [i \in Ingredients |-> AmountsOf(w.ingredients, i)]]

\* C3 (as claimed): a read that runs while an update of the recipe is in
\* progress sees the recipe as it was before that update or as it is after
\* it, nothing in between.
C3_ReadersSeeOldOrNew ==
    [][\A p, w \in Procs :
         ( /\ p # w
           /\ mreq[p].pc = "idle" /\ mreq'[p].op = "read" /\ mreq'[p].status = 200
           /\ mreq[w].op = "update" /\ mreq[w].pc \in InFlight
           /\ mreq[w].recipe = mreq'[p].recipe )
         => mreq'[p].seen \in {before[w], AfterUpdate(mreq[w])}]_vars

\* An update of an existing recipe by a caller allowed to write it has
\* answered, and its body had neither the tags nor the ingredients key.
OmittedBoth(p) ==
    /\ mreq[p].op = "update" /\ mreq[p].pc = "done"
    /\ ~mreq[p].gaveTags /\ ~mreq[p].gaveIngredients
    /\ mreq[p].status \notin {403, 404}

C6_WholeCollectionReplaced ==
    \A p \in Procs :
        (mreq[p].op = "update" /\ mreq[p].pc = "done" /\ mreq[p].status = 200) =>
            /\ StoredEntries(mreq[p].recipe) = Range(mreq[p].ingredients)
            /\ RowCount(mreq[p].recipe) = Len(mreq[p].ingredients)
            /\ recipes[mreq[p].recipe].tags = mreq[p].tags

\* A successful update whose entries drop an ingredient stored before and
\* whose tags drop a tag stored before.
C6_Witness ==
    \E p \in Procs :
        /\ mreq[p].op = "update" /\ mreq[p].pc = "done" /\ mreq[p].status = 200
        /\ Len(mreq[p].ingredients) = MaxLen
        /\ \E i \in Ingredients :
              /\ before[p].amounts[i] # <<>>
              /\ before[p].amounts[i] # amounts[mreq[p].recipe][i]
        /\ before[p].row.tags \ mreq[p].tags # {}

\* C8: no recipe has two IngredientAmount rows for the same ingredient, in
\* every reachable state of concurrently running create and update calls.
C8_AmountRowsUnique ==
    \A r \in RecipeIds, i \in Ingredients : Len(amounts[r][i]) <= 1

\* Two updates of one recipe submitted the same ingredient; both deleted the
\* old rows before either inserted; one inserted, the other's INSERT failed.
C8_Witness ==
    \E p, q \in Procs :
        /\ p # q
        /\ mreq[p].op = "update" /\ mreq[q].op = "update"
        /\ mreq[p].recipe = mreq[q].recipe
        /\ mreq[p].pc = "done" /\ mreq[p].status = 200
        /\ mreq[q].pc = "done" /\ mreq[q].status = 500
        /\ Range(IdsOf(mreq[p].ingredients)) \cap Range(IdsOf(mreq[q].ingredients)) # {}

\* C13: when a create or an update (which supplied tags and ingredients) has
\* succeeded, the recipe has at least one tag and at least one
\* IngredientAmount row.
C13_AtLeastOneTagAndIngredient ==
    \A p \in Procs :
        ( /\ mreq[p].op \in {"create", "update"} /\ mreq[p].pc = "done"
          /\ mreq[p].status \in {200, 201} ) =>
            /\ mreq[p].gaveTags /\ mreq[p].gaveIngredients
            /\ recipes[mreq[p].recipe].exists
            /\ recipes[mreq[p].recipe].tags # {}
            /\ RowCount(mreq[p].recipe) >= 1

\* A create with one tag and one ingredient has succeeded.
C13_Witness ==
    \E p \in Procs :
        /\ mreq[p].op = "create" /\ mreq[p].pc = "done" /\ mreq[p].status = 201
        /\ Len(mreq[p].tagIds) = 1 /\ Len(mreq[p].ingredients) = 1

\* The submitted ingredients name some id twice.
RepeatsAnId(items) ==
    \E j, k \in DOMAIN items : j # k /\ items[j].id = items[k].id

AmountsInBounds(items) ==
    \A k \in DOMAIN items :
        MIN_AMOUNT <= items[k].amount /\ items[k].amount <= MAX_INGREDIENT_AMOUNT

\* A create whose ingredients name an id twice comes in: the step from idle.
DuplicateCreateTaken(p) ==
    /\ mreq[p].pc = "idle" /\ mreq'[p].op = "create"
    /\ mreq'[p].gaveIngredients /\ RepeatsAnId(mreq'[p].ingredients)

\* C14 (as claimed): the step that takes in a create whose ingredients contain
\* the same id twice answers 400 with the 'ingredients must be unique' error
\* and writes no row.
C14_DuplicateAlwaysUniqueError ==
    [][\A p \in Procs :
         DuplicateCreateTaken(p) =>
            /\ mreq'[p].pc = "done" /\ mreq'[p].status = 400
            /\ <<"ingredients", "unique">> \in mreq'[p].errors
            /\ recipes' = recipes /\ amounts' = amounts /\ nextId' = nextId]_vars

\* C14 (amended): that step answers 400 with an error keyed by 'ingredients'
\* and writes no row; the error is the 'must be unique' one when every
\* submitted amount is within its bounds (otherwise it is the amount error of
\* the entry).
C14_DuplicateRejected ==
    [][\A p \in Procs :
         DuplicateCreateTaken(p) =>
            /\ mreq'[p].pc = "done" /\ mreq'[p].status = 400
            /\ \E e \in mreq'[p].errors : e[1] = "ingredients"
            /\ AmountsInBounds(mreq'[p].ingredients) =>
                  <<"ingredients", "unique">> \in mreq'[p].errors
            /\ recipes' = recipes /\ amounts' = amounts /\ nextId' = nextId]_vars

\* A create with the same id twice, both amounts in bounds, was rejected.
C14_Witness ==
    \E p \in Procs :
        /\ mreq[p].op = "create" /\ mreq[p].pc = "done" /\ mreq[p].status = 400
        /\ Len(mreq[p].ingredients) = 2 /\ RepeatsAnId(mreq[p].ingredients)
        /\ mreq[p].ingredients[1].amount # mreq[p].ingredients[2].amount
        /\ AmountsInBounds(mreq[p].ingredients)
        /\ mreq[p].errors = {<<"ingredients", "unique">>}

\* C16: the representation of the recipe read back after a successful create
\* has, as sets, the submitted tag ids and the submitted (id, amount) entries.
C16_CreateReadRoundTrip ==
    \A p \in Procs :
        (mreq[p].op = "create" /\ mreq[p].pc = "done" /\ mreq[p].status = 201) =>
            /\ Representation(mreq[p].seen).tags = Range(mreq[p].tagIds)
            /\ Representation(mreq[p].seen).ingredients = Range(mreq[p].ingredients)

\* A create with two tags and two ingredients has been read back.
C16_Witness ==
    \E p \in Procs :
        /\ mreq[p].op = "create" /\ mreq[p].pc = "done" /\ mreq[p].status = 201
        /\ Len(mreq[p].tagIds) = MaxLen /\ Len(mreq[p].ingredients) = MaxLen
        /\ mreq[p].seen.row.exists

\* An update of an existing recipe by a caller allowed to write it has answered.
UpdateAnswered(p) ==
    /\ mreq[p].op = "update" /\ mreq[p].pc = "done"
    /\ mreq[p].status \notin {403, 404}

ProvidedEmpty(p, field) ==
    IF field = "tags" THEN mreq[p].gaveTags /\ mreq[p].tagIds = <<>>
    ELSE mreq[p].gaveIngredients /\ mreq[p].ingredients = <<>>

Absent(p, field) ==
    IF field = "tags" THEN ~mreq[p].gaveTags ELSE ~mreq[p].gaveIngredients

\* An update whose tags or ingredients key is present and empty is rejected
\* with the 'at least one' error of that key and changes nothing.
EmptyRejected(p) ==
    \A field \in {"tags", "ingredients"} :
        (UpdateAnswered(p) /\ ProvidedEmpty(p, field)) =>
            /\ mreq[p].status = 400
            /\ <<field, "need_one">> \in mreq[p].errors
            /\ Snapshot(mreq[p].recipe) = before[p]

CartRows(u) ==
    {row \in RecipeIds \X Ingredients \X (1..(MaxLen + NumProcs)) :
        /\ rel["cart"][u][row[1]] >= 1
        /\ row[3] \in DOMAIN amounts[row[1]][row[2]]}

PairOf(row) == <<catalog[row[2]].name, catalog[row[2]].unit>>

RECURSIVE SumAmounts(_)
SumAmounts(rows) ==
    IF rows = {} THEN 0
    ELSE LET row == CHOOSE x \in rows : TRUE
         IN amounts[row[1]][row[2]][row[3]] + SumAmounts(rows \ {row})

\* The list worker p built has exactly one line per (name, unit) pair of the
\* user's cart rows, each with the sum of its group's amounts, in ascending
\* order of the name.
LinesAggregate(p) ==
    LET lines == listing[p].lines
        rows == CartRows(listing[p].user)
    IN /\ {<<lines[k].name, lines[k].unit>> : k \in DOMAIN lines} = {PairOf(row) : row \in rows}
       /\ Len(lines) = Cardinality({PairOf(row) : row \in rows})
       /\ \A k \in DOMAIN lines :
             lines[k].total =
                SumAmounts({row \in rows : PairOf(row) = <<lines[k].name, lines[k].unit>>})
       /\ \A j, k \in DOMAIN lines : j < k => lines[j].name <= lines[k].name

\* C15 (as claimed): every list built aggregates as LinesAggregate says, and
\* two lists built for the same user from the same database are the same
\* sequence of lines, whatever the order in which the rows are met.
C15_ListIndependentOfOrder ==
    \A p \in Procs : listing[p].pc = "done" =>
        /\ LinesAggregate(p)
        /\ \A q \in Procs :
              (listing[q].pc = "done" /\ listing[q].user = listing[p].user) =>
                  listing[q].lines = listing[p].lines

\* C15 (amended): every list built aggregates as LinesAggregate says, and two
\* lists built for the same user from the same database have the same lines
\* and the same sequence of names: they can differ only in the relative
\* order of lines that have the same ingredient name (and different units).
C15_ListAggregates ==
    \A p \in Procs : listing[p].pc = "done" =>
        /\ LinesAggregate(p)
        /\ \A q \in Procs :
              (listing[q].pc = "done" /\ listing[q].user = listing[p].user) =>
                  /\ Range(listing[q].lines) = Range(listing[p].lines)
                  /\ Len(listing[q].lines) = Len(listing[p].lines)
                  /\ \A k \in DOMAIN listing[p].lines :
                        listing[q].lines[k].name = listing[p].lines[k].name

\* Two lists were built for a user whose cart holds two recipes that share an
\* ingredient name and unit: two lines, one of them summed over both recipes.
C15_Witness ==
    \E p, q \in Procs :
        /\ p # q /\ listing[p].pc = "done" /\ listing[q].pc = "done"
        /\ listing[p].user = listing[q].user
        /\ \A r \in RecipeIds : rel["cart"][listing[p].user][r] = 1
        /\ Len(listing[p].lines) = 2
        /\ listing[p].lines[1].name < listing[p].lines[2].name
        /\ \E k \in DOMAIN listing[p].lines : listing[p].lines[k].total > MAX_INGR_AMOUNT

\* ---- authorization

\* The caller may write a recipe of the given author.
CanWrite(u, author) == (u # Anonymous /\ u = author) \/ u \in Superusers

\* The permission checks let the request through.
Admitted(q) == q.status \notin {401, 403}

\* C17: a read is admitted for every caller; an update or a delete of a stored
\* recipe is admitted if and only if the caller is authenticated and is the
\* recipe's author, or is a superuser; and whenever a stored recipe's row, tag
\* set or ingredient rows change, the step belongs to a request on that recipe
\* whose caller may write it.
C17_AuthorizationGuard ==
    [][/\ \A p \in Procs :
            (mreq[p].pc = "idle" /\ mreq'[p].pc # "idle") =>
                /\ mreq'[p].op = "read" =>
                      /\ Admitted(mreq'[p])
                      /\ recipes[mreq'[p].recipe].exists =>
                            (mreq'[p].status = 200 /\ mreq'[p].seen = Snapshot(mreq'[p].recipe))
                /\ (mreq'[p].op \in {"update", "destroy"} /\ recipes[mreq'[p].recipe].exists) =>
                      (Admitted(mreq'[p]) <=>
                          CanWrite(mreq'[p].user, recipes[mreq'[p].recipe].author))
       /\ \A r \in RecipeIds :
            (recipes[r].exists /\ Snapshot(r)' # Snapshot(r)) =>
                \E p \in Procs :
                    /\ mreq'[p].op \in {"update", "destroy"}
                    /\ mreq'[p].recipe = r
                    /\ CanWrite(mreq'[p].user, recipes[r].author)]_vars

\* An authenticated user who is neither the author nor a superuser asked for
\* an update or a delete of a stored recipe: denied, the recipe is as it was.
C17_Witness ==
    \E p \in Procs :
        /\ mreq[p].op \in {"update", "destroy"}
        /\ mreq[p].pc = "done"
        /\ mreq[p].user \in Users \ Superusers
        /\ recipes[mreq[p].recipe].exists
        /\ recipes[mreq[p].recipe].author # mreq[p].user
        /\ mreq[p].status = 403
        /\ Snapshot(mreq[p].recipe) = before[p]

\* ---- amount boundary

\* The bounds declared on the stored IngredientAmount.amount field.
WithinStoredBounds(amount) == MIN_AMOUNT <= amount /\ amount <= MAX_INGREDIENT_AMOUNT

C23_EmptyCartPlaceholder ==
    \A p \in Procs : listing[p].pc = "done" =>
        /\ CartRows(listing[p].user) = {} => listing[p].placeholder
        /\ listing[p].lines = <<>> => listing[p].placeholder
        /\ listing[p].placeholder => listing[p].lines = <<>>

\* One list was built for a user with no cart row, another for a user whose
\* cart holds only recipes without ingredient rows: both are the placeholder.
C23_Witness ==
    \E p, q \in Procs :
        /\ listing[p].pc = "done" /\ listing[q].pc = "done"
        /\ \A r \in RecipeIds : rel["cart"][listing[p].user][r] = 0
        /\ \E r \in RecipeIds : rel["cart"][listing[q].user][r] = 1
        /\ CartRows(listing[q].user) = {}
        /\ listing[p].placeholder /\ listing[q].placeholder

RECURSIVE SumTotals(_)
SumTotals(lines) ==
    IF lines = <<>> THEN 0 ELSE Head(lines).total + SumTotals(Tail(lines))

\* C28: the totals of the lines add up to the sum of amount over the
\* IngredientAmount rows of the recipes in the user's cart, each row once.
C28_TotalsConserved ==
    \A p \in Procs : listing[p].pc = "done" =>
        SumTotals(listing[p].lines) = SumAmounts(CartRows(listing[p].user))

\* The cart holds both recipes, which share an ingredient, and two distinct
\* ingredient ids of the same name and unit: their rows are merged in one line.
C28_Witness ==
    \E p \in Procs :
        /\ listing[p].pc = "done"
        /\ \A r \in RecipeIds : rel["cart"][listing[p].user][r] = 1
        /\ \E i, j \in Ingredients : i # j /\ catalog[i] = catalog[j]
        /\ \A r \in RecipeIds, i \in Ingredients : amounts[r][i] # <<>>
        /\ Len(listing[p].lines) = 1
        /\ listing[p].lines[1].total = SumAmounts(CartRows(listing[p].user))
        /\ Cardinality(CartRows(listing[p].user)) = MaxRecipes * NumIngredients

\* ---- cascade

\* C21: in every reachable state every Bookmark / CartItem row references a
\* stored recipe and a stored user, and every IngredientAmount row references
\* a stored recipe; so after a recipe is deleted no such row references it and
\* after a user is deleted no favorite or cart row references that user.
C21_ReferentialIntegrity ==
    /\ \A k \in Kinds, u \in Users, r \in RecipeIds :
          rel[k][u][r] >= 1 => recipes[r].exists /\ u \in accounts
    /\ \A r \in RecipeIds : RowCount(r) >= 1 => recipes[r].exists

\* A recipe that had ingredient, favorite and cart rows was deleted while an
\* add for it was in flight, and the add, which found no row of its own, ended
\* without a row although get_object() had found the recipe.
C21_Witness ==
    /\ mreq[Deleter].op = "destroy" /\ mreq[Deleter].status = 204
    /\ SumLen(before[Deleter].amounts, Ingredients) >= 1
    /\ ~recipes[mreq[Deleter].recipe].exists
    /\ \E p \in SeqProcs :
          /\ treq[p].pc = "done" /\ treq[p].add /\ treq[p].pre = 0
          /\ treq[p].recipe = mreq[Deleter].recipe
          /\ treq[p].detail # "not_found"
          /\ treq[p].status # 201

\* ---- requests without credentials

WriteOps == {"create", "update", "destroy"}

StorageUnchanged == recipes' = recipes /\ amounts' = amounts /\ nextId' = nextId /\ rel' = rel

\* C29: a recipe create / update / delete and a favorite / cart add / remove
\* sent without credentials is answered at once with 401 or 403, and no step
\* of such a request changes a Recipe row, a tag association, an
\* IngredientAmount row, a Bookmark row or a CartItem row.
C29_AnonymousChangesNothing ==
    [][\A p \in Procs :
          /\ (mreq'[p] # mreq[p] /\ mreq'[p].op \in WriteOps /\ mreq'[p].user = Anonymous) =>
                /\ mreq'[p].pc = "done" /\ mreq'[p].status \in {401, 403}
                /\ StorageUnchanged
          /\ (mreq'[p] # mreq[p] /\ mreq[p].op \in WriteOps /\ mreq[p].user = Anonymous) =>
                StorageUnchanged
          /\ (treq'[p] # treq[p] /\ treq'[p].pc # "idle" /\ treq'[p].user = Anonymous) =>
                /\ treq'[p].pc = "done" /\ treq'[p].status \in {401, 403}
                /\ StorageUnchanged
          /\ (treq'[p] # treq[p] /\ treq[p].pc # "idle" /\ treq[p].user = Anonymous) =>
                StorageUnchanged]_vars

\* A remove of a stored cart row of a stored recipe was asked for without
\* credentials and denied.
C29_Witness ==
    \E p \in Procs :
        /\ treq[p].pc = "done" /\ treq[p].user = Anonymous /\ ~treq[p].add
        /\ treq[p].status \in {401, 403}
        /\ recipes[treq[p].recipe].exists
        /\ \E u \in Users : rel[treq[p].kind][u][treq[p].recipe] = 1
        /\ RowCount(treq[p].recipe) >= 1

\* ---- concurrent updates of one recipe

\* Two updates of one recipe that both passed validation have answered.
BothUpdated(p, q) ==
    /\ p # q
    /\ mreq[p].op = "update" /\ mreq[q].op = "update"
    /\ mreq[p].recipe = mreq[q].recipe
    /\ mreq[p].pc = "done" /\ mreq[q].pc = "done"
    /\ mreq[p].status \in {200, 500} /\ mreq[q].status \in {200, 500}

\* C24 (as claimed): when two updates of the same recipe that supply the
\* ingredient sets X and Y have both answered, both succeeded and the stored
\* ingredient rows are exactly X or exactly Y.
C24_ConcurrentUpdatesXorY ==
    \A p, q \in Procs :
        BothUpdated(p, q) =>
            /\ mreq[p].status = 200 /\ mreq[q].status = 200
            /\ \/ StoredEntries(mreq[p].recipe) = Range(mreq[p].ingredients)
               \/ StoredEntries(mreq[p].recipe) = Range(mreq[q].ingredients)

\* The part of C24 about the union: never have both updates succeeded with
\* the stored rows being the union of two different sets X and Y.
C24_NoUnionStored ==
    ~ \E p, q \in Procs :
        /\ BothUpdated(p, q)
        /\ mreq[p].status = 200 /\ mreq[q].status = 200
        /\ Range(mreq[p].ingredients) # Range(mreq[q].ingredients)
        /\ StoredEntries(mreq[p].recipe) =
              Range(mreq[p].ingredients) \cup Range(mreq[q].ingredients)

\* ---- ingredient loader

\* C30: while the loop runs the three counters add up to the number of items
\* passed, and to the length of the list after the loop; no key (the name,
\* stripped and casefolded) reaches get_or_create twice in a run; a run without
\* --update that follows a finished run on the same file ends with created = 0
\* and updated = 0, and no step of it changes the table.
C30_LoaderAccounting ==
    /\ load.pc = "loop" => load.created + load.updated + load.skipped = load.i - 1
    /\ load.pc = "done" => load.created + load.updated + load.skipped = Len(load.file)
    /\ \A j, k \in DOMAIN load.processed : j # k => load.processed[j] # load.processed[k]
    /\ (load.run >= 2 /\ ~load.update /\ load.pc \in {"loop", "done"}) =>
          /\ load.created = 0 /\ load.updated = 0
          /\ load.table = load.start

\* A second run without --update has finished on a file of two spellings of
\* one name: one of them reached get_or_create, both were skipped.
C30_Witness ==
    /\ load.pc = "done" /\ load.run = 2 /\ ~load.update
    /\ Len(load.file) = 2
    /\ Casefold(Strip(load.file[1].name)) = Casefold(Strip(load.file[2].name))
    /\ load.file[1].name # load.file[2].name
    /\ Len(load.processed) = 1
    /\ load.skipped = 2
    /\ load.table # {}

\* ---- subscriptions

Subscribers(u, a) ==
    {p \in Procs : /\ sreq[p].pc # "idle" /\ sreq[p].add
                   /\ sreq[p].user = u /\ sreq[p].author = a}

\* No Follow row of a user to themselves, at most one row per pair.
FollowRowsValid ==
    /\ \A u \in Users : follows[u][u] = 0
    /\ \A u, a \in Users : follows[u][a] <= 1

\* C26 (as claimed): no Follow row has subscriber = author, there is at most
\* one row per (subscriber, author), and when two subscribe calls of one user
\* for one other user that both came in without a row have answered, one row is
\* stored, one caller got 201 and the other 400 "already"; no subscribe call
\* ends in an unhandled uniqueness error.
C26_SubscribeRaceOneWinner ==
    /\ FollowRowsValid
    /\ \A p \in Procs : sreq[p].status # 500
    /\ \A u, a \in Users :
         LET S == Subscribers(u, a) IN
         ( /\ u # a
           /\ Cardinality(S) >= 2
           /\ \A p \in S : sreq[p].pc = "done" /\ sreq[p].pre = 0 ) =>
             /\ follows[u][a] = 1
             /\ Cardinality({p \in S : sreq[p].status = 201}) = 1
             /\ \A p \in S : sreq[p].status # 201 =>
                   sreq[p].status = 400 /\ sreq[p].detail = "already"

\* ---- author

\* C25 (as claimed): the INSERT of a create stores the requesting user as the
\* author, and no step of any update (PATCH or PUT, by the author or by a
\* superuser) changes the author of a stored recipe.
C25_AuthorIsCreator ==
    [][\A r \in RecipeIds :
          /\ (~recipes[r].exists /\ recipes'[r].exists) =>
                \E p \in Procs : mreq[p].op = "create" /\ recipes'[r].author = mreq[p].user
          /\ (recipes[r].exists /\ recipes'[r].exists) =>
                recipes'[r].author = recipes[r].author]_vars

\* ---- the two kinds

\* Both runs have answered the current call.
BothAnswered == treq[FavoriteRun].pc = "done" /\ treq[CartRun].pc = "done"

SameOwnRows(p, q) ==
    /\ listing[p].pc = "done" /\ listing[q].pc = "done"
    /\ listing[p].user = listing[q].user
    /\ listing[p].own = listing[q].own

\* A step changes the cart rows of user u only if it belongs to a cart call
\* of u.
OwnCartFrame ==
    \A u \in Users :
        (\E r \in RecipeIds : rel'["cart"][u][r] # rel["cart"][u][r]) =>
            \E p \in Procs : treq[p].kind = "cart" /\ treq[p].user = u

C12_StoredValuesInBounds ==
    \A r \in RecipeIds :
        /\ \A i \in Ingredients : \A k \in DOMAIN amounts[r][i] :
              MIN_AMOUNT <= amounts[r][i][k] /\ amounts[r][i][k] <= MAX_INGREDIENT_AMOUNT
        /\ recipes[r].exists =>
              /\ MIN_COOKING_TIME <= recipes[r].cooking_time
              /\ recipes[r].cooking_time <= MAX_COOKING_TIME

\* A recipe is stored with both values at their upper bounds, and an update
\* of it that named a cooking_time out of bounds has been answered.
C12_Witness ==
    \E p \in Procs, r \in RecipeIds :
        /\ recipes[r].exists /\ recipes[r].cooking_time = MAX_COOKING_TIME
        /\ \E i \in Ingredients : amounts[r][i] = <<MAX_INGREDIENT_AMOUNT>>
        /\ mreq[p].op = "update" /\ mreq[p].recipe = r /\ mreq[p].pc = "done"
        /\ <<"cooking_time", "range">> \in mreq[p].errors

\* C20: the step that takes in a create whose body lacks some of name, text,
\* image, cooking_time, ingredients, tags answers 400 with a 'required' error
\* keyed by each missing field; the request ends there and the step writes
\* no Recipe row, no tag association and no IngredientAmount row.
C20_MissingFieldsRejected ==
    [][\A p \in Procs :
         ( /\ mreq[p].pc = "idle" /\ mreq'[p].op = "create"
           /\ mreq'[p].missing # {} )
         => /\ mreq'[p].pc = "done" /\ mreq'[p].status = 400
            /\ \A f \in mreq'[p].missing : <<f, "required">> \in mreq'[p].errors
            /\ recipes' = recipes /\ amounts' = amounts /\ nextId' = nextId]_vars

\* A create whose body had only the cooking_time key has been answered.
C20_Witness ==
    \E p \in Procs :
        /\ mreq[p].op = "create" /\ mreq[p].pc = "done" /\ mreq[p].status = 400
        /\ mreq[p].missing = FieldNames \ {"cooking_time"}
        /\ \A r \in RecipeIds : ~recipes[r].exists

====
